---------------------------- MODULE Spec2Model ----------------------------
(***************************************************************************)
(* Similarity-and-clustering engine of the journal service.                *)
(*                                                                         *)
(*   src/similarity.js  - the "continuous" scorer (4 aspects: exponential  *)
(*                        date decay, token Jaccard, cosine, relative      *)
(*                        amount) and clusterEntries                       *)
(*   src/server.js      - the "strict" scorer (7 aspects, every aspect in  *)
(*                        {0,1}) and its clusterEntries                    *)
(*                                                                         *)
(* JavaScript numbers that are scores are modelled in fixed point: a score *)
(* x is the integer floor(x * SCALE).  The one place where the rounding of *)
(* IEEE-754 doubles decides on which side of 1.0 a score lies (cosine of   *)
(* parallel vectors) is modelled from the doubles themselves: the value    *)
(* one ulp above 1.0 is SCALE + 1 and the values one or two ulps below 1.0 *)
(* are SCALE - 1.                                                          *)
(*                                                                         *)
(* JavaScript values:                                                      *)
(*   number-like  [k |-> "absent" | "num" | "nan", v |-> Int]              *)
(*   date string  [k |-> "absent" | "iso" | "garbage", v |-> day number]   *)
(*   string       <<>> (null/undefined) or <<s>>, s a sequence of tokens   *)
(*                (words, "," and " "); "" is << <<>> >>                   *)
(*   array        [k |-> "absent" | "arr", v |-> sequence of ranks], the   *)
(*                elements being strings named by their rank in the        *)
(*                default (string) sort order                              *)
(*   counts       [k |-> "absent" | "obj", male, female, kids, total]      *)
(***************************************************************************)
EXTENDS Integers, Sequences, FiniteSets, TLC

SCALE == 10^4

\* ------------------------------------------------------------------------
\* JavaScript values
\* ------------------------------------------------------------------------
NoNum == [k |-> "absent", v |-> 0]
NaNum == [k |-> "nan", v |-> 0]
Num(n) == [k |-> "num", v |-> n]
\* the string of the decimal digits of n, as JSON.parse gives for "n"
NumStr(n) == [k |-> "str", v |-> n]

NoDate == [k |-> "absent", v |-> 0]
BadDate == [k |-> "garbage", v |-> 0]
Iso(d) == [k |-> "iso", v |-> d]

NoStr == <<>>
Str(s) == <<s>>

NoArr == [k |-> "absent", v |-> <<>>]
Arr(s) == [k |-> "arr", v |-> s]

NoCounts == [k |-> "absent", male |-> NoNum, female |-> NoNum,
             kids |-> NoNum, total |-> NoNum]
Counts(m, f, c, t) == [k |-> "obj", male |-> m, female |-> f,
                       kids |-> c, total |-> t]

null == <<>>
Some(x) == <<x>>

\* x ?? y on an optional number
Coalesce(x, y) == IF x = null THEN y ELSE x[1]

Abs(x) == IF x < 0 THEN -x ELSE x
Max2(x, y) == IF x >= y THEN x ELSE y
Min2(x, y) == IF x <= y THEN x ELSE y

RECURSIVE SumSeq(_)
SumSeq(s) == IF s = <<>> THEN 0 ELSE Head(s) + SumSeq(Tail(s))

\* ------------------------------------------------------------------------
\* Strings as token sequences
\* ------------------------------------------------------------------------
toLowerTok(t) ==
    CASE t = "Aleppo" -> "aleppo"
      [] t = "Syria" -> "syria"
      [] t = "City" -> "city"
      [] t = "Bus" -> "bus"
      [] t = "Paris" -> "paris"
      [] t = "France" -> "france"
      [] OTHER -> t

toLowerCase(s) == [i \in 1..Len(s) |-> toLowerTok(s[i])]

RECURSIVE trimStart(_)
trimStart(s) ==
    IF s # <<>> /\ Head(s) = " " THEN trimStart(Tail(s)) ELSE s

RECURSIVE trimEnd(_)
trimEnd(s) ==
    IF s # <<>> /\ s[Len(s)] = " "
    THEN trimEnd(SubSeq(s, 1, Len(s) - 1)) ELSE s

trim(s) == trimEnd(trimStart(s))

\* s.split(","): the segments between commas, empty segments included
RECURSIVE splitComma(_, _)
splitComma(s, cur) ==
    IF s = <<>> THEN <<cur>>
    ELSE IF Head(s) = "," THEN <<cur>> \o splitComma(Tail(s), <<>>)
    ELSE splitComma(Tail(s), Append(cur, Head(s)))

STOPWORDS ==
    {"the", "a", "an", "of", "and", "to", "in", "on", "at", "de", "la",
     "el", "le", "du", "von", "province", "voivodeship", "state", "county",
     "region", "district", "city", "town"}

\* [^a-z0-9, ]+ is replaced by a blank: "-" is the one such token
replacePunct(s) == [i \in 1..Len(s) |-> IF s[i] = "-" THEN " " ELSE s[i]]

IsSeparator(t) == t \in {",", " "}

\* ------------------------------------------------------------------------
\* helpers of src/similarity.js and src/server.js
\* ------------------------------------------------------------------------
safeNum(n) == IF n.k = "num" THEN Some(n.v) ELSE null

isoToDate(d) == IF d.k = "iso" THEN Some(d.v) ELSE null

iso(d) == IF d.k = "iso" THEN Some(d.v) ELSE null

\* whole days: the dates are yyyy-mm-dd strings, parsed as UTC midnights
daysBetween(a, b) == Abs(a - b)

tokenizeLocation(s) ==
    IF s = NoStr \/ s[1] = <<>> THEN <<>>
    ELSE SelectSeq(replacePunct(toLowerCase(s[1])),
                   LAMBDA t : ~IsSeparator(t) /\ t \notin STOPWORDS)

SeqToSet(s) == {s[i] : i \in 1..Len(s)}

jaccard(a, b) ==
    IF Cardinality(a) = 0 /\ Cardinality(b) = 0 THEN SCALE
    ELSE LET inter == Cardinality({x \in a : x \in b})
             union == Cardinality(a) + Cardinality(b) - inter
         IN IF union = 0 THEN 0 ELSE (inter * SCALE) \div union

\* Pairs <<na, nb>> of squared norms with na * nb a perfect square for which
\* the double Math.sqrt(na) * Math.sqrt(nb) is below sqrt(na * nb), so that
\* the quotient of parallel vectors is 1.0000000000000002 ...
SqrtProductLow ==
    {<<3, 3>>, <<3, 12>>, <<3, 48>>, <<6, 6>>, <<6, 24>>, <<12, 3>>,
     <<12, 12>>, <<12, 48>>, <<13, 13>>, <<13, 52>>, <<18, 18>>, <<23, 23>>,
     <<24, 6>>, <<24, 24>>, <<26, 26>>, <<29, 29>>, <<31, 31>>, <<37, 37>>,
     <<38, 38>>, <<43, 43>>, <<48, 3>>, <<48, 12>>, <<48, 48>>, <<52, 13>>,
     <<52, 52>>, <<59, 59>>}

\* ... and those for which it is above, the quotient being 0.9999999999999998
\* or 0.9999999999999999 (squared norms up to 59)
SqrtProductHigh ==
    {<<2, 2>>, <<2, 8>>, <<2, 32>>, <<2, 50>>, <<5, 5>>, <<5, 20>>,
     <<5, 45>>, <<7, 7>>, <<7, 28>>, <<8, 2>>, <<8, 8>>, <<8, 32>>,
     <<8, 50>>, <<10, 10>>, <<10, 40>>, <<15, 15>>, <<19, 19>>, <<20, 5>>,
     <<20, 20>>, <<20, 45>>, <<28, 7>>, <<28, 28>>, <<32, 2>>, <<32, 8>>,
     <<32, 32>>, <<32, 50>>, <<40, 10>>, <<40, 40>>, <<45, 5>>, <<45, 20>>,
     <<45, 45>>, <<50, 2>>, <<50, 8>>, <<50, 32>>, <<50, 50>>, <<51, 51>>,
     <<58, 58>>}

\* resolution of the cosine of two vectors that are not parallel
COS_STEPS == 10^2

cosine(a, b) ==
    LET L == Max2(Len(a), Len(b))
        x(i) == IF i <= Len(a) THEN a[i] ELSE 0
        y(i) == IF i <= Len(b) THEN b[i] ELSE 0
        dot == SumSeq([i \in 1..L |-> x(i) * y(i)])
        na == SumSeq([i \in 1..L |-> x(i) * x(i)])
        nb == SumSeq([i \in 1..L |-> y(i) * y(i)])
    IN IF na = 0 /\ nb = 0 THEN SCALE
       ELSE IF na = 0 \/ nb = 0 THEN 0
       ELSE IF dot * dot = na * nb
            THEN (IF <<na, nb>> \in SqrtProductLow THEN SCALE + 1
                  ELSE IF <<na, nb>> \in SqrtProductHigh THEN SCALE - 1
                  ELSE SCALE)
       ELSE LET c == CHOOSE q \in 0..COS_STEPS :
                        /\ q * q * na * nb <= COS_STEPS * COS_STEPS * dot * dot
                        /\ \/ q = COS_STEPS
                           \/ (q + 1) * (q + 1) * na * nb
                                 > COS_STEPS * COS_STEPS * dot * dot
            IN Min2(c * (SCALE \div COS_STEPS), SCALE - 1)

\* arrEqual of src/server.js; sort() is the default (string) sort
RECURSIVE insertSorted(_, _)
insertSorted(s, x) ==
    IF s = <<>> THEN <<x>>
    ELSE IF x <= Head(s) THEN <<x>> \o s
    ELSE <<Head(s)>> \o insertSorted(Tail(s), x)

RECURSIVE sort(_)
sort(s) == IF s = <<>> THEN <<>> ELSE insertSorted(sort(Tail(s)), Head(s))

arrEqual(a, b) ==
    LET A == IF a.k = "arr" THEN sort(a.v) ELSE <<>>
        B == IF b.k = "arr" THEN sort(b.v) ELSE <<>>
    IN IF Len(A) # Len(B) THEN FALSE
       ELSE \A i \in 1..Len(A) : A[i] = B[i]


\* ------------------------------------------------------------------------
\* per-field similarities of src/similarity.js (continuous)
\* ------------------------------------------------------------------------
\* floor(SCALE * Math.exp(-d / 7)) for d = 0 .. 65 days, 0 beyond
ExpDecayTable ==
    <<10000, 8668, 7514, 6514, 5647, 4895, 4243, 3678, 3189, 2764, 2396,
      2077, 1800, 1561, 1353, 1173, 1017, 881, 764, 662, 574, 497,
      431, 374, 324, 281, 243, 211, 183, 158, 137, 119, 103,
      89, 77, 67, 58, 50, 43, 38, 32, 28, 24, 21,
      18, 16, 13, 12, 10, 9, 7, 6, 5, 5, 4,
      3, 3, 2, 2, 2, 1, 1, 1, 1, 1, 0>>

ExpDecay(d) == IF d < Len(ExpDecayTable) THEN ExpDecayTable[d + 1] ELSE 0

simDate(a, b) ==
    LET da == isoToDate(a)
        db == isoToDate(b)
    IN IF da = null \/ db = null THEN 0
       ELSE ExpDecay(daysBetween(da[1], db[1]))

\* a?.toLowerCase().split(",").map(trim).filter(Boolean).pop()
lastSegment(a) ==
    IF a = NoStr THEN null
    ELSE LET segs == SelectSeq(
                 [i \in 1..Len(splitComma(toLowerCase(a[1]), <<>>)) |->
                     trim(splitComma(toLowerCase(a[1]), <<>>)[i])],
                 LAMBDA g : g # <<>>)
         IN IF segs = <<>> THEN null ELSE Some(segs[Len(segs)])

LOCATION_BONUS == (15 * SCALE) \div 100

simLocation(a, b) ==
    LET sa == SeqToSet(tokenizeLocation(a))
        sb == SeqToSet(tokenizeLocation(b))
        score == jaccard(sa, sb)
        aLast == lastSegment(a)
        bLast == lastSegment(b)
    IN IF aLast # null /\ bLast # null /\ aLast = bLast
       THEN Min2(SCALE, score + LOCATION_BONUS)
       ELSE score

simCounts(ca, cb) ==
    IF ca.k = "absent" /\ cb.k = "absent" THEN 0
    ELSE LET aMale == Coalesce(safeNum(ca.male), 0)
             aFemale == Coalesce(safeNum(ca.female), 0)
             aKids == Coalesce(safeNum(ca.kids), 0)
             aTotal == Coalesce(safeNum(ca.total), aMale + aFemale + aKids)
             bMale == Coalesce(safeNum(cb.male), 0)
             bFemale == Coalesce(safeNum(cb.female), 0)
             bKids == Coalesce(safeNum(cb.kids), 0)
             bTotal == Coalesce(safeNum(cb.total), bMale + bFemale + bKids)
         IN cosine(<<aMale, aFemale, aKids, aTotal>>,
                   <<bMale, bFemale, bKids, bTotal>>)

\* an amount rule that measures the difference against the first amount only
simRansomOneSided(a, b) ==
    LET na == safeNum(a)
        nb == safeNum(b)
    IN IF na = null /\ nb = null THEN 0
       ELSE IF na = null \/ nb = null THEN 0
       ELSE LET maxv == Max2(na[1], 1)
                diff == Abs(na[1] - nb[1])
            IN Max2(0, (SCALE * (maxv - diff)) \div maxv)

simRansom(a, b) ==
    LET na == safeNum(a)
        nb == safeNum(b)
    IN IF na = null /\ nb = null THEN 0
       ELSE IF na = null \/ nb = null THEN 0
       ELSE LET maxv == Max2(Max2(na[1], nb[1]), 1)
                diff == Abs(na[1] - nb[1])
            IN Max2(0, (SCALE * (maxv - diff)) \div maxv)

\* ------------------------------------------------------------------------
\* the 7 pairwise rules of src/server.js (strict)
\* ------------------------------------------------------------------------
simDateStrict(a, b) ==
    LET da == iso(a)
        db == iso(b)
    IN IF da = null \/ db = null THEN 0
       ELSE IF daysBetween(da[1], db[1]) <= 1 THEN SCALE ELSE 0

\* (a || "").trim().toLowerCase()
normStr(a) == IF a = NoStr THEN <<>> ELSE toLowerCase(trim(a[1]))

simLocationExact(a, b) ==
    LET s1 == normStr(a)
        s2 == normStr(b)
    IN IF s1 = <<>> \/ s2 = <<>> THEN 0
       ELSE IF s1 = s2 THEN SCALE ELSE 0

simCountsTolerant(ca, cb) ==
    LET m1 == safeNum(ca.male)
        m2 == safeNum(cb.male)
        f1 == safeNum(ca.female)
        f2 == safeNum(cb.female)
        k1 == safeNum(ca.kids)
        k2 == safeNum(cb.kids)
        \* ca?.total ?? (m1 || 0) + (f1 || 0) + (k1 || 0)
        t1 == IF ca.total.k = "absent"
              THEN Some(Coalesce(m1, 0) + Coalesce(f1, 0) + Coalesce(k1, 0))
              ELSE safeNum(ca.total)
        t2 == IF cb.total.k = "absent"
              THEN Some(Coalesce(m2, 0) + Coalesce(f2, 0) + Coalesce(k2, 0))
              ELSE safeNum(cb.total)
        ok(x, y, tol) == Abs(x[1] - y[1]) <= tol
        checks ==
            (IF m1 # null /\ m2 # null THEN <<ok(m1, m2, 1)>> ELSE <<>>)
            \o (IF f1 # null /\ f2 # null THEN <<ok(f1, f2, 1)>> ELSE <<>>)
            \o (IF k1 # null /\ k2 # null THEN <<ok(k1, k2, 1)>> ELSE <<>>)
            \o (IF t1 # null /\ t2 # null THEN <<ok(t1, t2, 3)>> ELSE <<>>)
    IN IF checks = <<>> THEN 0
       ELSE IF \A i \in 1..Len(checks) : checks[i] THEN SCALE ELSE 0

\* rel <= 0.1 with rel = |x - y| / max(x, y, 1)
simRansomPct(a, b) ==
    LET x == safeNum(a)
        y == safeNum(b)
    IN IF x = null \/ y = null THEN 0
       ELSE LET maxv == Max2(Max2(x[1], y[1]), 1)
            IN IF 10 * Abs(x[1] - y[1]) <= maxv THEN SCALE ELSE 0

simEventEqual(a, b) == IF arrEqual(a, b) THEN SCALE ELSE 0

simTransportEqual(a, b) ==
    LET s1 == normStr(a)
        s2 == normStr(b)
    IN IF s1 = <<>> \/ s2 = <<>> THEN 0
       ELSE IF s1 = s2 THEN SCALE ELSE 0

simConditionsEqual(a, b) == IF arrEqual(a, b) THEN SCALE ELSE 0

\* ------------------------------------------------------------------------
\* overallSimilarity
\* ------------------------------------------------------------------------
ContinuousAspects == <<"date", "location", "counts", "ransom">>

StrictAspects ==
    <<"date", "location", "counts", "ransom",
      "eventTypes", "transport", "conditions">>

AspectsOf(v) == IF v = "continuous" THEN ContinuousAspects ELSE StrictAspects

AllAspects == SeqToSet(StrictAspects)

\* the second argument of each add() call
aspectScore(v, k, a, b) ==
    IF v = "continuous"
    THEN CASE k = "date" -> simDate(a.date, b.date)
           [] k = "location" -> simLocation(a.location, b.location)
           [] k = "counts" -> simCounts(a.counts, b.counts)
           [] k = "ransom" -> simRansom(a.ransom, b.ransom)
    ELSE CASE k = "date" -> simDateStrict(a.date, b.date)
           [] k = "location" -> simLocationExact(a.location, b.location)
           [] k = "counts" -> simCountsTolerant(a.counts, b.counts)
           [] k = "ransom" -> simRansomPct(a.ransom, b.ransom)
           [] k = "eventTypes" -> simEventEqual(a.eventTypes, b.eventTypes)
           [] k = "transport" -> simTransportEqual(a.transport, b.transport)
           [] k = "conditions" ->
                simConditionsEqual(a.conditions, b.conditions)

\* a weight test without the sign: !w only
weightRejectedNoSign(w) == w.k # "num" \/ w.v = 0

\* !w || w <= 0 : the weight is missing, NaN, zero or negative; a string of
\* digits is not empty, so !w is false, and w <= 0 compares its number
weightRejected(w) == w.k \notin {"num", "str"} \/ w.v <= 0

\* an add that leaves out the aspects that score 0
addDropsZero(ps, w, s) ==
    IF weightRejected(w) \/ s = null \/ s = Some(0) THEN ps
    ELSE Append(ps, [w |-> w, s |-> s[1]])

\* add of src/similarity.js: s is an optional number
add(ps, w, s) ==
    IF weightRejected(w) \/ s = null THEN ps
    ELSE Append(ps, [w |-> w, s |-> s[1]])

\* add of src/server.js
addStrict(ps, w, s) ==
    IF weightRejected(w) THEN ps
    ELSE Append(ps, [w |-> w, s |-> s[1]])

RECURSIVE addAll(_, _, _, _, _)
addAll(v, ks, a, b, weights) ==
    IF ks = <<>> THEN <<>>
    ELSE LET k == ks[Len(ks)]
             before == addAll(v, SubSeq(ks, 1, Len(ks) - 1), a, b, weights)
         IN IF v = "continuous"
            THEN add(before, weights[k], Some(aspectScore(v, k, a, b)))
            ELSE addStrict(before, weights[k], Some(aspectScore(v, k, a, b)))

partsOf(v, a, b, weights) == addAll(v, AspectsOf(v), a, b, weights)

\* String(n) of an integer n >= 0, as its sequence of decimal digits
RECURSIVE Digits(_)
Digits(n) == IF n < 10 THEN <<n>> ELSE Digits(n \div 10) \o <<n % 10>>

\* Number(s) of a string of decimal digits
RECURSIVE DigitsValue(_)
DigitsValue(d) ==
    IF d = <<>> THEN 0
    ELSE 10 * DigitsValue(SubSeq(d, 1, Len(d) - 1)) + d[Len(d)]

\* acc + p.w as JavaScript adds: numbers add, and with a string on either
\* side both are written out and concatenated. acc is [k, v, d]: the number
\* v, or the string of the digits d
plusWeight(acc, w) ==
    IF acc.k = "num" /\ w.k = "num"
    THEN [k |-> "num", v |-> acc.v + w.v, d |-> <<>>]
    ELSE [k |-> "str", v |-> 0,
          d |-> (IF acc.k = "num" THEN Digits(acc.v) ELSE acc.d)
                \o Digits(w.v)]

\* parts.reduce((acc, p) => acc + p.w, 0)
RECURSIVE sumWeights(_)
sumWeights(ps) ==
    IF ps = <<>> THEN [k |-> "num", v |-> 0, d |-> <<>>]
    ELSE plusWeight(sumWeights(SubSeq(ps, 1, Len(ps) - 1)), ps[Len(ps)].w)

\* W === 0 ? 0 : num / W ; p.w * p.s and num / W read a string as its number
average(ps) ==
    LET W == sumWeights(ps)
        num == SumSeq([i \in 1..Len(ps) |-> ps[i].w.v * ps[i].s])
    IN IF W.k = "num"
       THEN (IF W.v = 0 THEN 0 ELSE num \div W.v)
       ELSE num \div DigitsValue(W.d)

overallSimilarity(v, a, b, weights) == average(partsOf(v, a, b, weights))


\* ------------------------------------------------------------------------
\* DSU (union-find) of src/similarity.js and src/server.js
\* ------------------------------------------------------------------------
\* constructor(n): parent[i] = i, size[i] = 1, indices 0 .. n - 1
DSUParent(n) == [x \in 0..(n - 1) |-> x]

DSUSize(n) == [x \in 0..(n - 1) |-> 1]

\* find(x) with path compression: the root, and the parent array afterwards
RECURSIVE find(_, _)
find(par, x) ==
    IF par[x] = x THEN [root |-> x, parent |-> par]
    ELSE LET up == find(par, par[x])
         IN [root |-> up.root, parent |-> [up.parent EXCEPT ![x] = up.root]]

\* a union that hangs the root of y under the root of x whatever the sizes
unionFirstOnTop(d, x, y) ==
    LET fa == find(d.parent, x)
        fb == find(fa.parent, y)
    IN IF fa.root = fb.root THEN [parent |-> fb.parent, size |-> d.size]
       ELSE [parent |-> [fb.parent EXCEPT ![fb.root] = fa.root],
             size |-> [d.size EXCEPT
                          ![fa.root] = d.size[fa.root] + d.size[fb.root]]]

\* a union that hangs y under x without looking for their roots
unionNoFind(d, x, y) ==
    [parent |-> [d.parent EXCEPT ![y] = x], size |-> d.size]

\* union(a, b) on d = [parent, size]
union(d, x, y) ==
    LET fa == find(d.parent, x)
        fb == find(fa.parent, y)
        ra == IF d.size[fa.root] < d.size[fb.root] THEN fb.root ELSE fa.root
        rb == IF d.size[fa.root] < d.size[fb.root] THEN fa.root ELSE fb.root
    IN IF fa.root = fb.root THEN [parent |-> fb.parent, size |-> d.size]
       ELSE [parent |-> [fb.parent EXCEPT ![rb] = ra],
             size |-> [d.size EXCEPT ![ra] = d.size[ra] + d.size[rb]]]

\* ------------------------------------------------------------------------
\* clusterEntries
\* ------------------------------------------------------------------------
\* threshold = 0.7 when the argument is undefined
DEFAULT_THRESHOLD == (7 * SCALE) \div 10

thresholdOf(t) == IF t.k = "absent" THEN DEFAULT_THRESHOLD ELSE t.v

\* +s.toFixed(3): s rounded to 3 decimals, half up
toFixed3(s) == ((s + (SCALE \div 2000)) \div (SCALE \div 1000)) * (SCALE \div 1000)

\* a loop body that links a pair only when s > threshold
comparePairStrictlyAbove(v, es, weights, t, st, i, j) ==
    LET s == overallSimilarity(v, es[i + 1], es[j + 1], weights)
    IN IF s > thresholdOf(t)
       THEN LET d == union([parent |-> st.parent, size |-> st.size], i, j)
            IN [parent |-> d.parent, size |-> d.size,
                edges |-> Append(st.edges,
                                 [a |-> es[i + 1].id, b |-> es[j + 1].id,
                                  score |-> toFixed3(s)])]
       ELSE st

\* a loop body that links a pair when s stays below the threshold
comparePairBelow(v, es, weights, t, st, i, j) ==
    LET s == overallSimilarity(v, es[i + 1], es[j + 1], weights)
    IN IF s < thresholdOf(t)
       THEN LET d == union([parent |-> st.parent, size |-> st.size], i, j)
            IN [parent |-> d.parent, size |-> d.size,
                edges |-> Append(st.edges,
                                 [a |-> es[i + 1].id, b |-> es[j + 1].id,
                                  score |-> toFixed3(s)])]
       ELSE st

\* the body of the inner loop for the pair (i, j): entries is 1-based here,
\* entries[i + 1] is the code's entries[i]
comparePair(v, es, weights, t, st, i, j) ==
    LET s == overallSimilarity(v, es[i + 1], es[j + 1], weights)
    IN IF s >= thresholdOf(t)
       THEN LET d == union([parent |-> st.parent, size |-> st.size], i, j)
            IN [parent |-> d.parent, size |-> d.size,
                edges |-> Append(st.edges,
                                 [a |-> es[i + 1].id, b |-> es[j + 1].id,
                                  score |-> toFixed3(s)])]
       ELSE st

\* loops that compare the first row only with the rows after it
nextPairFirstRowOnly(n, i, j) ==
    IF j + 1 < n THEN <<i, j + 1>> ELSE <<n, n>>

\* the pair after (i, j) in the two nested loops; <<n, n>> when there is none
nextPair(n, i, j) ==
    IF j + 1 < n THEN <<i, j + 1>>
    ELSE IF i + 2 < n THEN <<i + 1, i + 2>>
    ELSE <<n, n>>

firstPair(n) == IF n >= 2 THEN <<0, 1>> ELSE <<n, n>>

\* a grouping step that replaces the members of the root by [i]
groupStepOverwrite(par, groups, i) ==
    LET f == find(par, i)
        at == {g \in 1..Len(groups) : groups[g].root = f.root}
    IN [parent |-> f.parent,
        groups |-> IF at = {}
                   THEN Append(groups, [root |-> f.root, members |-> <<i>>])
                   ELSE LET g == CHOOSE g \in at : TRUE
                        IN [groups EXCEPT ![g].members = <<i>>]]

\* for (i = 0; i < n; i++) { r = find(i); groups.get(r).push(i) }: one step.
\* groups is the Map in insertion order: a sequence of [root, members]
groupStep(par, groups, i) ==
    LET f == find(par, i)
        at == {g \in 1..Len(groups) : groups[g].root = f.root}
    IN [parent |-> f.parent,
        groups |-> IF at = {}
                   THEN Append(groups, [root |-> f.root, members |-> <<i>>])
                   ELSE LET g == CHOOSE g \in at : TRUE
                        IN [groups EXCEPT
                               ![g].members = Append(groups[g].members, i)]]

\* an insertion that puts a bucket before the buckets of its own size
RECURSIVE insertBeforeTies(_, _)
insertBeforeTies(bs, x) ==
    IF bs = <<>> THEN <<x>>
    ELSE IF x.size >= Head(bs).size THEN <<x>> \o bs
    ELSE <<Head(bs)>> \o insertBeforeTies(Tail(bs), x)

\* buckets.sort((a, b) => b.size - a.size): stable, by descending size
RECURSIVE insertBySize(_, _)
insertBySize(bs, x) ==
    IF bs = <<>> THEN <<x>>
    ELSE IF x.size > Head(bs).size THEN <<x>> \o bs
    ELSE <<Head(bs)>> \o insertBySize(Tail(bs), x)

RECURSIVE sortBySize(_)
sortBySize(bs) ==
    IF bs = <<>> THEN <<>>
    ELSE insertBySize(sortBySize(SubSeq(bs, 1, Len(bs) - 1)), bs[Len(bs)])

\* +x.toFixed(1) of sum / cnt, in tenths: the nearest tenth, the larger one in
\* magnitude on a tie (ties are quarters, which are exact)
toFixed1(sum, cnt) ==
    IF sum >= 0 THEN (20 * sum + cnt) \div (2 * cnt)
    ELSE -((20 * (-sum) + cnt) \div (2 * cnt))

\* x ?? 0 of a part of counts
orZero(x) == IF x.k = "absent" THEN Num(0) ELSE x

\* c.total ?? (c.male ?? 0) + (c.female ?? 0) + (c.kids ?? 0)
totalOrParts(c) ==
    IF c.total.k # "absent" THEN c.total
    ELSE IF \A f \in {"male", "female", "kids"} : orZero(c[f]).k = "num"
    THEN Num(orZero(c.male).v + orZero(c.female).v + orZero(c.kids).v)
    ELSE NaNum

\* countsAvg of the entries at the indices idxs: the mean over the entries
\* that have a counts object, in tenths; 0 when none has. The parts are
\* numbers or missing; a part that is not a number makes the mean NaN.
countsAvgOf(es, idxs) ==
    LET cs == SelectSeq([m \in 1..Len(idxs) |-> es[idxs[m] + 1].counts],
                        LAMBDA c : c.k # "absent")
        cntCounts == Len(cs)
        mean(vals) ==
            IF cntCounts = 0 THEN Num(0)
            ELSE IF \A m \in 1..cntCounts : vals[m].k = "num"
            THEN Num(toFixed1(SumSeq([m \in 1..cntCounts |-> vals[m].v]),
                              cntCounts))
            ELSE NaNum
    IN [male |-> mean([m \in 1..cntCounts |-> orZero(cs[m].male)]),
        female |-> mean([m \in 1..cntCounts |-> orZero(cs[m].female)]),
        kids |-> mean([m \in 1..cntCounts |-> orZero(cs[m].kids)]),
        total |-> mean([m \in 1..cntCounts |-> totalOrParts(cs[m])])]

\* an edge filter that keeps every edge
similarityEdgesAll(ids, list) == list

\* edges.filter((e) => ids.includes(e.a) && ids.includes(e.b))
similarityEdgesOf(ids, list) ==
    SelectSeq(list, LAMBDA e : e.a \in SeqToSet(ids) /\ e.b \in SeqToSet(ids))

\* one bucket per group, numbered in the order of the groups, then sorted.
\* src/similarity.js adds the aggregates of the bucket (of which countsAvg
\* and similarityEdges are kept here); src/server.js returns the three
\* plain fields only.
makeBuckets(v, es, groups, list) ==
    sortBySize([g \in 1..Len(groups) |->
        LET ids == [m \in 1..Len(groups[g].members) |->
                       es[groups[g].members[m] + 1].id]
            plain == [bucketId |-> g, entryIds |-> ids,
                      size |-> Len(groups[g].members)]
        IN IF v = "strict" THEN plain
           ELSE plain @@ [countsAvg |-> countsAvgOf(es, groups[g].members),
                          similarityEdges |-> similarityEdgesOf(ids, list)]])

\* the whole function, as the composition of the steps above
RECURSIVE pairLoop(_, _, _, _, _, _, _)
pairLoop(v, es, weights, t, st, i, j) ==
    IF i >= Len(es) THEN st
    ELSE LET nx == nextPair(Len(es), i, j)
         IN pairLoop(v, es, weights, t,
                     comparePair(v, es, weights, t, st, i, j), nx[1], nx[2])

RECURSIVE groupLoop(_, _, _, _)
groupLoop(par, groups, i, n) ==
    IF i >= n THEN groups
    ELSE LET g == groupStep(par, groups, i)
         IN groupLoop(g.parent, g.groups, i + 1, n)

clusterEntries(v, es, weights, t) ==
    LET n == Len(es)
        st == pairLoop(v, es, weights, t,
                       [parent |-> DSUParent(n), size |-> DSUSize(n),
                        edges |-> <<>>],
                       firstPair(n)[1], firstPair(n)[2])
    IN [buckets |-> makeBuckets(v, es, groupLoop(st.parent, <<>>, 0, n),
                                st.edges),
        pairwise |-> st.edges]

\* ------------------------------------------------------------------------
\* State
\* ------------------------------------------------------------------------
VARIABLES
    variant,      \* which module runs: "continuous" (src/similarity.js)
                  \* or "strict" (src/server.js)
    weights,      \* the weights argument
    pc,           \* position of the running call
    \* --- a pairwise call of overallSimilarity
    a, b,         \* the two records
    parts,        \* the list built by add()
    result,       \* overallSimilarity(a, b, weights)
    swapped,      \* overallSimilarity(b, a, weights)
    scores,       \* the aspect scores computed for (a, b)
    \* --- a call of clusterEntries
    entries,      \* the input list (entries[p] is the code's entries[p - 1])
    threshold,    \* the threshold argument
    i, j,         \* loop indices (0-based, as in the code)
    parent, size, \* the DSU of this call
    edges,        \* the edge list of this call
    groups,       \* the Map root -> member indices, in insertion order
    returned,     \* the value returned: [buckets, pairwise]
    threshold2,   \* the threshold of a second call on the same input
    returned2,    \* the value returned by the second call
    \* --- a request GET /api/entries/similar
    rows,         \* what getConsentedEntries() returns
    minSize,      \* req.query.minSize
    response,     \* the body sent: [buckets, entryById, pairwise]
    weights2,     \* req.query.weights of a second request on the same rows
    response2,    \* the body sent for the second request
    common,       \* computeCommonAspects of each bucket received
    \* --- two calls of clusterEntries in progress
    calls,        \* the arguments and the locals of each call
    \* --- the consent index and the handlers that use it
    index,        \* the lines of consented-journals.jsonl, or NoFile
    pod,          \* the URLs of the resources that exist on the pods
    handlers      \* the position and the locals of each handler

vars == <<variant, weights, pc, a, b, parts, result, swapped, scores,
          entries, threshold, i, j, parent, size, edges, groups, returned,
          threshold2, returned2,
          rows, minSize, response, weights2, response2, common,
          calls, index, pod, handlers>>

scoreVars == <<a, b, parts, result, swapped, scores>>

auxVars == <<calls, index, pod, handlers>>

clusterVars == <<entries, threshold, i, j, parent, size, edges, groups,
                 returned, threshold2, returned2>>

routeVars == <<rows, minSize, response, weights2, response2, common>>

\* ------------------------------------------------------------------------
\* Inputs
\* ------------------------------------------------------------------------
Variants == {"continuous", "strict"}

\* "Aleppo, Syria", " aleppo, syria", "aleppo city, syria", "the"
LocAleppo == <<"Aleppo", ",", " ", "Syria">>
LocAleppoLower == <<" ", "aleppo", ",", " ", "syria">>
LocAleppoCity == <<"aleppo", " ", "city", ",", " ", "syria">>
LocThe == <<"the">>

\* the last day number of the input dates
MaxDay == 2

DateValues == {NoDate, BadDate} \cup {Iso(d) : d \in 0..MaxDay}

LocationValues ==
    {NoStr, Str(<<>>), Str(LocAleppo), Str(LocAleppoLower),
     Str(LocAleppoCity), Str(LocThe)}

CountsValues ==
    {NoCounts,
     Counts(NoNum, NoNum, NoNum, NoNum),
     Counts(Num(1), NoNum, NoNum, NoNum),
     Counts(Num(1), Num(1), NoNum, NoNum),
     Counts(NoNum, NoNum, NoNum, Num(4)),
     Counts(Num(3), NoNum, NaNum, Num(8))}

RansomValues == {NoNum, NaNum, Num(100), Num(105), Num(200)}

EventValues == {NoArr, Arr(<<>>), Arr(<<1>>), Arr(<<1, 2>>), Arr(<<2, 1>>)}

TransportValues ==
    {NoStr, Str(<<>>), Str(<<"Bus">>), Str(<<" ", "bus">>), Str(<<"car">>)}

ConditionValues == {NoArr, Arr(<<>>), Arr(<<1>>), Arr(<<2>>)}

WeightValues == {NoNum, NaNum, Num(-1), Num(0), Num(1), Num(2)}

\* the values of an attribute when records vary little
FewValues(k) ==
    CASE k = "date" -> {NoDate, Iso(0), Iso(1)}
      [] k = "location" -> {NoStr, Str(LocAleppo), Str(LocAleppoCity)}
      [] k = "counts" -> {NoCounts, Counts(Num(1), NoNum, NoNum, NoNum),
                          Counts(NoNum, NoNum, NoNum, Num(4))}
      [] k = "ransom" -> {NoNum, Num(100), Num(200)}
      [] k = "eventTypes" -> {NoArr, Arr(<<1>>), Arr(<<1, 2>>)}
      [] k = "transport" -> {NoStr, Str(<<"Bus">>), Str(<<"car">>)}
      [] k = "conditions" -> {NoArr, Arr(<<1>>), Arr(<<2>>)}

AllValues(k) ==
    CASE k = "date" -> DateValues
      [] k = "location" -> LocationValues
      [] k = "counts" -> CountsValues
      [] k = "ransom" -> RansomValues
      [] k = "eventTypes" -> EventValues
      [] k = "transport" -> TransportValues
      [] k = "conditions" -> ConditionValues

AbsentValue(k) ==
    CASE k = "date" -> NoDate
      [] k = "location" -> NoStr
      [] k = "counts" -> NoCounts
      [] k = "ransom" -> NoNum
      [] k = "eventTypes" -> NoArr
      [] k = "transport" -> NoStr
      [] k = "conditions" -> NoArr

\* records that carry attributes for the aspects in F only, each drawn from
\* vals[k]
RecordsOn(F, id, vals) ==
    LET dom(k) == IF k \in F THEN vals[k] ELSE {AbsentValue(k)}
    IN [id : {id}, date : dom("date"), location : dom("location"),
        counts : dom("counts"), ransom : dom("ransom"),
        eventTypes : dom("eventTypes"), transport : dom("transport"),
        conditions : dom("conditions")]

\* weight objects that name the aspects in F only
WeightsOn(F, vals) ==
    LET dom(k) == IF k \in F THEN vals ELSE {NoNum}
    IN [date : dom("date"), location : dom("location"),
        counts : dom("counts"), ransom : dom("ransom"),
        eventTypes : dom("eventTypes"), transport : dom("transport"),
        conditions : dom("conditions")]

\* one aspect or two aspects of the variant
FocusSets(v) ==
    {{k1, k2} : k1 \in SeqToSet(AspectsOf(v)), k2 \in SeqToSet(AspectsOf(v))}

BlankRecord == [id |-> 0, date |-> NoDate, location |-> NoStr,
                counts |-> NoCounts, ransom |-> NoNum, eventTypes |-> NoArr,
                transport |-> NoStr, conditions |-> NoArr]

NoScores == [k \in AllAspects |-> 0]

NoReturn == [buckets |-> <<>>, pairwise |-> <<>>]

NoCluster ==
    /\ entries = <<>>
    /\ threshold = NoNum
    /\ i = 0
    /\ j = 0
    /\ parent = DSUParent(0)
    /\ size = DSUSize(0)
    /\ edges = <<>>
    /\ groups = <<>>
    /\ returned = NoReturn
    /\ threshold2 = NoNum
    /\ returned2 = NoReturn

NoResponse == [buckets |-> <<>>, entryById |-> <<>>, pairwise |-> <<>>]

NoAux ==
    /\ calls = <<>>
    /\ index = <<>>
    /\ pod = {}
    /\ handlers = <<>>

NoRoute ==
    /\ rows = NoArr
    /\ minSize = NoNum
    /\ response = NoResponse
    /\ weights2 = [k \in AllAspects |-> NoNum]
    /\ response2 = NoResponse
    /\ common = <<>>

\* Pairwise calls: either the records range over all the values of the
\* aspects in focus and these aspects have weight 1, or the weights range
\* over all weight values and the records vary little.
InitScore ==
    /\ variant \in Variants
    /\ \E F \in FocusSets(variant) :
          \/ /\ a \in RecordsOn(F, 1, [k \in AllAspects |-> AllValues(k)])
             /\ b \in RecordsOn(F, 2, [k \in AllAspects |-> AllValues(k)])
             /\ weights \in WeightsOn(F, {Num(1)})
          \/ /\ a \in RecordsOn(F, 1, [k \in AllAspects |-> FewValues(k)])
             /\ b \in RecordsOn(F, 2, [k \in AllAspects |-> FewValues(k)])
             /\ weights \in WeightsOn(F, WeightValues)
    /\ pc = "input"
    /\ parts = <<>>
    /\ result = 0
    /\ swapped = 0
    /\ scores = NoScores
    /\ NoCluster
    /\ NoRoute
    /\ NoAux

\* ------------------------------------------------------------------------
\* Pairwise scoring: one call of overallSimilarity, then the call with the
\* arguments exchanged
\* ------------------------------------------------------------------------
scoresOf(v, x, y) ==
    [k \in AllAspects |->
        IF k \in SeqToSet(AspectsOf(v)) THEN aspectScore(v, k, x, y) ELSE 0]

ScoreContinuous ==
    /\ pc = "input"
    /\ variant = "continuous"
    /\ parts' = partsOf("continuous", a, b, weights)
    /\ result' = average(parts')
    /\ scores' = scoresOf("continuous", a, b)
    /\ pc' = "scored"
    /\ UNCHANGED <<variant, weights, a, b, swapped>>
    /\ UNCHANGED clusterVars
    /\ UNCHANGED routeVars
    /\ UNCHANGED auxVars

ScoreStrict ==
    /\ pc = "input"
    /\ variant = "strict"
    /\ parts' = partsOf("strict", a, b, weights)
    /\ result' = average(parts')
    /\ scores' = scoresOf("strict", a, b)
    /\ pc' = "scored"
    /\ UNCHANGED <<variant, weights, a, b, swapped>>
    /\ UNCHANGED clusterVars
    /\ UNCHANGED routeVars
    /\ UNCHANGED auxVars

ScoreSwapped ==
    /\ pc = "scored"
    /\ swapped' = overallSimilarity(variant, b, a, weights)
    /\ pc' = "swapped"
    /\ UNCHANGED <<variant, weights, a, b, parts, result, scores>>
    /\ UNCHANGED clusterVars
    /\ UNCHANGED routeVars
    /\ UNCHANGED auxVars

NextScore == ScoreContinuous \/ ScoreStrict \/ ScoreSwapped

SpecScore == InitScore /\ [][NextScore]_vars

\* ------------------------------------------------------------------------
\* Pairwise scoring with the weights as JSON.parse(req.query.weights) gives
\* them: numbers, strings of digits, missing keys and keys that name no aspect
\* ------------------------------------------------------------------------
ParsedWeightValues == {NoNum, Num(-1), Num(1), NumStr(1)}

\* a key of the weights object that names no aspect
UnknownKeyValues == {NumStr(2)}

ParsedWeights(F) ==
    WeightsOn(F, ParsedWeightValues)
    \cup {w @@ [unknown |-> u] :
             w \in WeightsOn(F, ParsedWeightValues), u \in UnknownKeyValues}

InitWeights ==
    /\ variant \in Variants
    /\ \E F \in FocusSets(variant) :
          /\ a \in RecordsOn(F, 1, [k \in AllAspects |-> FewValues(k)])
          /\ b \in RecordsOn(F, 2, [k \in AllAspects |-> FewValues(k)])
          /\ weights \in ParsedWeights(F)
    /\ pc = "input"
    /\ parts = <<>>
    /\ result = 0
    /\ swapped = 0
    /\ scores = NoScores
    /\ NoCluster
    /\ NoRoute
    /\ NoAux

SpecWeights == InitWeights /\ [][NextScore]_vars

\* ------------------------------------------------------------------------
\* Clustering: one call of clusterEntries, step by step, then a second call
\* on the same input with a higher threshold
\* ------------------------------------------------------------------------
\* the longest input list
MaxEntries == 3

\* the records of the input lists: reports of one event that are up to two
\* days apart, and one without a date that names another amount
ClusterRecords ==
    <<[BlankRecord EXCEPT !.date = Iso(0), !.ransom = Num(100)],
      [BlankRecord EXCEPT !.date = Iso(1), !.ransom = Num(100)],
      [BlankRecord EXCEPT !.date = Iso(2), !.ransom = Num(100)],
      [BlankRecord EXCEPT !.ransom = Num(105)]>>

\* ids: r.id || r.link || r.url of the rows, unique or with the last row
\* repeating the id of the first
IdLists(n) ==
    {[p \in 1..n |-> p]}
    \cup (IF n >= 2 THEN {[p \in 1..n |-> IF p = n THEN 1 ELSE p]} ELSE {})

EntryLists ==
    UNION {{[p \in 1..n |-> [ClusterRecords[f[p]] EXCEPT !.id = ids[p]]] :
               f \in [1..n -> 1..Len(ClusterRecords)], ids \in IdLists(n)} :
           n \in 0..MaxEntries}

NoWeights == [date |-> NoNum, location |-> NoNum, counts |-> NoNum,
              ransom |-> NoNum, eventTypes |-> NoNum, transport |-> NoNum,
              conditions |-> NoNum]

ClusterWeights ==
    {[NoWeights EXCEPT !.date = Num(1)],
     [NoWeights EXCEPT !.date = Num(1), !.ransom = Num(1)]}

\* undefined (the default 0.7), 0.5, 0.7514, 0.8, 1
ThresholdValues ==
    {NoNum, Num(SCALE \div 2), Num((7514 * SCALE) \div 10000),
     Num((8 * SCALE) \div 10), Num(SCALE)}

NoScore ==
    /\ a = BlankRecord
    /\ b = BlankRecord
    /\ parts = <<>>
    /\ result = 0
    /\ swapped = 0
    /\ scores = NoScores

\* the state of clusterEntries after "const edges = []"
Init ==
    /\ variant \in Variants
    /\ weights \in ClusterWeights
    /\ entries \in EntryLists
    /\ threshold \in ThresholdValues
    /\ parent = DSUParent(Len(entries))
    /\ size = DSUSize(Len(entries))
    /\ edges = <<>>
    /\ i = firstPair(Len(entries))[1]
    /\ j = firstPair(Len(entries))[2]
    /\ pc = "pairs"
    /\ groups = <<>>
    /\ returned = NoReturn
    /\ threshold2 = NoNum
    /\ returned2 = NoReturn
    /\ NoScore
    /\ NoRoute
    /\ NoAux

n == Len(entries)

similarityOf(x, y) == overallSimilarity(variant, entries[x + 1], entries[y + 1], weights)

Compare ==
    LET st == comparePair(variant, entries, weights, threshold,
                          [parent |-> parent, size |-> size, edges |-> edges],
                          i, j)
    IN /\ pc = "pairs"
       /\ i < n
       /\ parent' = st.parent
       /\ size' = st.size
       /\ edges' = st.edges
       /\ i' = nextPair(n, i, j)[1]
       /\ j' = nextPair(n, i, j)[2]
       /\ UNCHANGED <<variant, weights, pc, entries, threshold, groups,
                      returned, threshold2, returned2>>
       /\ UNCHANGED scoreVars
       /\ UNCHANGED routeVars
       /\ UNCHANGED auxVars

\* s >= threshold: union(i, j) and edges.push
LinkPair ==
    /\ Compare
    /\ Len(edges') > Len(edges)

\* s < threshold
SkipPair ==
    /\ Compare
    /\ edges' = edges

\* both loops are over
EndPairs ==
    /\ pc = "pairs"
    /\ i >= n
    /\ pc' = "groups"
    /\ i' = 0
    /\ UNCHANGED <<variant, weights, entries, threshold, j, parent, size,
                   edges, groups, returned, threshold2, returned2>>
    /\ UNCHANGED scoreVars
    /\ UNCHANGED routeVars
    /\ UNCHANGED auxVars

GroupEntry ==
    /\ pc = "groups"
    /\ i < n
    /\ LET g == groupStep(parent, groups, i)
       IN /\ parent' = g.parent
          /\ groups' = g.groups
    /\ i' = i + 1
    /\ UNCHANGED <<variant, weights, pc, entries, threshold, j, size, edges,
                   returned, threshold2, returned2>>
    /\ UNCHANGED scoreVars
    /\ UNCHANGED routeVars
    /\ UNCHANGED auxVars

\* the buckets are built, sorted and returned with the edge list
Return ==
    /\ pc = "groups"
    /\ i >= n
    /\ returned' = [buckets |-> makeBuckets(variant, entries, groups, edges),
                    pairwise |-> edges]
    /\ pc' = "done"
    /\ UNCHANGED <<variant, weights, entries, threshold, i, j, parent, size,
                   edges, groups, threshold2, returned2>>
    /\ UNCHANGED scoreVars
    /\ UNCHANGED routeVars
    /\ UNCHANGED auxVars

\* clusterEntries(entries, weights, t) once more, with a higher threshold
Recluster ==
    /\ pc = "done"
    /\ \E t \in ThresholdValues :
          /\ thresholdOf(t) > thresholdOf(threshold)
          /\ threshold2' = t
          /\ returned2' = clusterEntries(variant, entries, weights, t)
    /\ pc' = "compared"
    /\ UNCHANGED <<variant, weights, entries, threshold, i, j, parent, size,
                   edges, groups, returned>>
    /\ UNCHANGED scoreVars
    /\ UNCHANGED routeVars
    /\ UNCHANGED auxVars

Next == LinkPair \/ SkipPair \/ EndPairs \/ GroupEntry \/ Return \/ Recluster

Spec == Init /\ [][Next]_vars

\* ------------------------------------------------------------------------
\* Clustering of three reports: A and B tell of one event in Aleppo a day
\* apart, C of another in Paris five months later
\* ------------------------------------------------------------------------
LocParis == <<"Paris", ",", " ", "France">>

\* 2024-01-01 is day 0, 2024-01-02 day 1, 2024-06-01 day 152
ReportA ==
    [BlankRecord EXCEPT !.id = 1, !.date = Iso(0),
                        !.location = Str(LocAleppo),
                        !.counts = Counts(NoNum, NoNum, NoNum, Num(4)),
                        !.ransom = Num(1000)]

ReportB ==
    [BlankRecord EXCEPT !.id = 2, !.date = Iso(1),
                        !.location = Str(LocAleppo),
                        !.counts = Counts(NoNum, NoNum, NoNum, Num(5)),
                        !.ransom = Num(1050)]

ReportC ==
    [BlankRecord EXCEPT !.id = 3, !.date = Iso(152),
                        !.location = Str(LocParis),
                        !.counts = Counts(NoNum, NoNum, NoNum, Num(2))]

Reports == <<ReportA, ReportB, ReportC>>

\* the three reports in every order
ReportLists ==
    {[p \in 1..3 |-> Reports[f[p]]] :
        f \in {g \in [1..3 -> 1..3] : \A x, y \in 1..3 : g[x] = g[y] => x = y}}

\* {date: 1, location: 1, counts: 1, ransom: 1}
ReportWeights ==
    [NoWeights EXCEPT !.date = Num(1), !.location = Num(1),
                      !.counts = Num(1), !.ransom = Num(1)]

\* 0.6
ReportThreshold == Num((6 * SCALE) \div 10)

InitReports ==
    /\ variant \in Variants
    /\ weights = ReportWeights
    /\ entries \in ReportLists
    /\ threshold = ReportThreshold
    /\ parent = DSUParent(Len(entries))
    /\ size = DSUSize(Len(entries))
    /\ edges = <<>>
    /\ i = firstPair(Len(entries))[1]
    /\ j = firstPair(Len(entries))[2]
    /\ pc = "pairs"
    /\ groups = <<>>
    /\ returned = NoReturn
    /\ threshold2 = NoNum
    /\ returned2 = NoReturn
    /\ NoScore
    /\ NoRoute
    /\ NoAux

SpecReports == InitReports /\ [][Next]_vars

\* ------------------------------------------------------------------------
\* GET /api/entries/similar (routes/similar.js) and the service it calls
\* (services/similarServices.js)
\* ------------------------------------------------------------------------
\* a row without any attribute; id 0 stands for a row without id, link or url
BlankRow == [id |-> 0, date |-> NoDate, location |-> NoStr, ransom |-> NoNum,
             male |-> NoNum, female |-> NoNum, kids |-> NoNum,
             total |-> NoNum, eventTypes |-> NoArr, transport |-> NoStr,
             conditions |-> NoArr]

\* Array.isArray(x) ? x : x ? [x] : []
asArray(x) == IF x.k = "arr" THEN x ELSE Arr(<<>>)

\* x || null on a string
orNull(x) == IF x = Str(<<>>) THEN NoStr ELSE x

\* the record built for each row by groupSimilarEntries
toEntry(r) ==
    [id |-> r.id, date |-> r.date, location |-> r.location,
     counts |-> Counts(r.male, r.female, r.kids, r.total),
     ransom |-> r.ransom, eventTypes |-> asArray(r.eventTypes),
     transport |-> orNull(r.transport),
     conditions |-> asArray(r.conditions)]

\* { date: 1, ..., conditions: 1, ...(opts?.weights || {}) }
mergeWeights(w) ==
    [k \in AllAspects |-> IF w[k].k = "absent" THEN Num(1) ELSE w[k]]

\* a service that calls rawEntries.map without "|| []": a missing list
\* throws
groupSimilarEntriesUnguarded(rawEntries, w, t) ==
    IF rawEntries.k # "arr" THEN [error |-> "TypeError"]
    ELSE clusterEntries("continuous",
                        [p \in 1..Len(rawEntries.v) |->
                            toEntry(rawEntries.v[p])],
                        mergeWeights(w),
                        IF t.k = "absent" THEN Num(DEFAULT_THRESHOLD) ELSE t)

\* groupSimilarEntries(rawEntries, { threshold, weights })
groupSimilarEntries(rawEntries, w, t) ==
    LET list == IF rawEntries.k = "arr" THEN rawEntries.v ELSE <<>>
    IN clusterEntries("continuous",
                      [p \in 1..Len(list) |-> toEntry(list[p])],
                      mergeWeights(w),
                      IF t.k = "absent" THEN Num(DEFAULT_THRESHOLD) ELSE t)

\* --- helpers of routes/similar.js
\* num(val(x)): a number, or a string of digits read as a number
numVal(x) == IF x.k \in {"num", "str"} THEN Num(x.v) ELSE NoNum

normalizeDate(r) == IF r.date.k = "iso" THEN r.date ELSE NoDate

normalizeLocation(r) ==
    IF r.location = NoStr \/ trim(r.location[1]) = <<>> THEN NoStr
    ELSE Str(trim(r.location[1]))

extractCounts(r) ==
    LET m == Coalesce(safeNum(numVal(r.male)), 0)
        f == Coalesce(safeNum(numVal(r.female)), 0)
        c == Coalesce(safeNum(numVal(r.kids)), 0)
        total == IF r.total.k = "absent"
                 THEN (IF m + f + c = 0 THEN NoNum ELSE Num(m + f + c))
                 ELSE numVal(r.total)
    IN Counts(numVal(r.male), numVal(r.female), numVal(r.kids), total)

extractRansom(r) == numVal(r.ransom)

extractEventTypes(r) == asArray(r.eventTypes)

extractTransport(r) ==
    IF r.transport = NoStr \/ trim(r.transport[1]) = <<>> THEN NoStr
    ELSE Str(trim(r.transport[1]))

extractConditions(r) == asArray(r.conditions)

normalizeRow(r) ==
    [id |-> r.id, date |-> normalizeDate(r),
     location |-> normalizeLocation(r), ransom |-> extractRansom(r),
     counts |-> extractCounts(r), eventTypes |-> extractEventTypes(r),
     transport |-> extractTransport(r),
     conditions |-> extractConditions(r)]

\* for (const r of rows) { if (!id) continue; entryById[id] = {...} }:
\* a later row replaces an earlier one of the same id
buildEntryById(list) ==
    [id \in {list[p].id : p \in 1..Len(list)} \ {0} |->
        LET last == CHOOSE p \in 1..Len(list) :
                        /\ list[p].id = id
                        /\ \A q \in (p + 1)..Len(list) : list[q].id # id
        IN normalizeRow(list[last])]

\* Math.min() and Math.max() of no number at all are Infinity and -Infinity
INFINITY == 1000000

RECURSIVE MinOf(_)
MinOf(s) == IF s = <<>> THEN INFINITY ELSE Min2(Head(s), MinOf(Tail(s)))

RECURSIVE MaxOf(_)
MaxOf(s) == IF s = <<>> THEN -INFINITY ELSE Max2(Head(s), MaxOf(Tail(s)))

\* .filter((v) => v != null) on the numbers xs of the entries
present(xs) ==
    LET kept == SelectSeq(xs, LAMBDA x : x.k = "num")
    IN [p \in 1..Len(kept) |-> kept[p].v]

\* the range of a headcount part when every entry has it within the tolerance
rangeWithin(xs, tol) ==
    LET vals == present(xs)
    IN IF Len(vals) = Len(xs) /\ MaxOf(vals) - MinOf(vals) <= tol
       THEN Some([min |-> MinOf(vals), max |-> MaxOf(vals)])
       ELSE null

\* const entries = b.entryIds.map((id) => entryById[id]).filter(Boolean)
membersOf(bk, entryById) ==
    LET ids == SelectSeq(bk.entryIds, LAMBDA id : id \in DOMAIN entryById)
    IN [p \in 1..Len(ids) |-> entryById[ids[p]]]

dateRangeOf(es) ==
    IF es # <<>> /\ \A p \in 1..Len(es) : es[p].date # NoDate
    THEN LET days == [p \in 1..Len(es) |-> es[p].date.v]
         IN IF MaxOf(days) - MinOf(days) <= 2
            THEN Some([earliest |-> MinOf(days), latest |-> MaxOf(days)])
            ELSE null
    ELSE null

commonLocationOf(es) ==
    IF /\ es # <<>>
       /\ \A p \in 1..Len(es) : es[p].location = es[1].location
       /\ es[1].location # NoStr
    THEN es[1].location ELSE NoStr

countsSimilarOf(es) ==
    [male |-> rangeWithin([p \in 1..Len(es) |-> es[p].counts.male], 1),
     female |-> rangeWithin([p \in 1..Len(es) |-> es[p].counts.female], 1),
     kids |-> rangeWithin([p \in 1..Len(es) |-> es[p].counts.kids], 1),
     total |-> rangeWithin([p \in 1..Len(es) |-> es[p].counts.total], 3)]

\* every value within 10% of the mean: |v - mean| / mean <= 0.1, with
\* mean = sum / n; a mean of 0 gives NaN, and no value at all -Infinity
ransomRangeOf(es) ==
    LET vals == present([p \in 1..Len(es) |-> es[p].ransom])
        sum == SumSeq(vals)
        cnt == Len(vals)
    IN IF Len(vals) # Len(es) THEN null
       ELSE IF cnt = 0 THEN Some([min |-> MinOf(vals), max |-> MaxOf(vals)])
       ELSE IF sum > 0 /\ \A p \in 1..cnt :
                              10 * Abs(vals[p] * cnt - sum) <= sum
       THEN Some([min |-> MinOf(vals), max |-> MaxOf(vals)])
       ELSE null

\* String(x).toLowerCase() of a list value: the values above UPPER are the
\* capitalised spellings of the values 1..UPPER
UPPER == 10
lowerValue(x) == IF x > UPPER THEN x - UPPER ELSE x

\* norm(v): the values lower-cased, sorted and joined
normList(x) == sort([p \in 1..Len(x.v) |-> lowerValue(x.v[p])])

eventTypeOf(es) ==
    IF /\ es # <<>>
       /\ normList(es[1].eventTypes) # <<>>
       /\ \A p \in 1..Len(es) :
             normList(es[p].eventTypes) = normList(es[1].eventTypes)
    THEN Some(es[1].eventTypes.v) ELSE null

transportOf(es) ==
    IF /\ es # <<>>
       /\ es[1].transport # NoStr
       /\ \A p \in 1..Len(es) :
             normStr(es[p].transport) = normStr(es[1].transport)
    THEN es[1].transport ELSE NoStr

conditionsOf(es) ==
    IF /\ es # <<>>
       /\ \A p \in 1..Len(es) :
             normList(es[p].conditions) = normList(es[1].conditions)
       /\ Len(es[1].conditions.v) > 0
    THEN Some(es[1].conditions.v) ELSE null

\* the summary of a bucket
summaryOf(bk, entryById) ==
    LET es == membersOf(bk, entryById)
    IN [dateRange |-> dateRangeOf(es),
        location |-> commonLocationOf(es),
        counts |-> countsSimilarOf(es),
        ransom |-> ransomRangeOf(es),
        eventType |-> eventTypeOf(es),
        transport |-> transportOf(es),
        conditions |-> conditionsOf(es)]

\* an enrichment that lists the entries it found instead of the members
enrichFound(bk, entryById) ==
    [entryIds |-> [p \in 1..Len(membersOf(bk, entryById)) |->
                      membersOf(bk, entryById)[p].id],
     size |-> Len(membersOf(bk, entryById)),
     summary |-> summaryOf(bk, entryById)] @@ bk

\* { ...b, summary }
enrich(bk, entryById) == [summary |-> summaryOf(bk, entryById)] @@ bk

\* req.query.minSize ? Number(req.query.minSize) : 2
minSizeOf(m) == IF m.k = "absent" THEN Num(2) ELSE m

\* a filter that keeps the buckets above minSize only
keepBucketAbove(bk, m) == minSizeOf(m).k = "num" /\ bk.size > minSizeOf(m).v

\* (b.size || 0) >= minSize
keepBucket(bk, m) == minSizeOf(m).k = "num" /\ bk.size >= minSizeOf(m).v

\* a response that explains the date only for the buckets whose edges all
\* score 0.9 or more
similarResponseScored(grouped, rs, m) ==
    LET entryById == buildEntryById(rs.v)
        kept == SelectSeq(grouped.buckets, LAMBDA bk : keepBucket(bk, m))
        strong(bk) ==
            \A e \in 1..Len(grouped.pairwise) :
                (/\ grouped.pairwise[e].a \in SeqToSet(bk.entryIds)
                 /\ grouped.pairwise[e].b \in SeqToSet(bk.entryIds))
                    => grouped.pairwise[e].score >= (9 * SCALE) \div 10
    IN [buckets |-> [g \in 1..Len(kept) |->
                        IF strong(kept[g]) THEN enrich(kept[g], entryById)
                        ELSE [enrich(kept[g], entryById)
                                 EXCEPT !.summary.dateRange = null]],
        entryById |-> entryById,
        pairwise |-> grouped.pairwise]

\* the body of the response, from the value the service returned
similarResponse(grouped, rs, m) ==
    LET entryById == buildEntryById(rs.v)
        kept == SelectSeq(grouped.buckets, LAMBDA bk : keepBucket(bk, m))
    IN [buckets |-> [g \in 1..Len(kept) |-> enrich(kept[g], entryById)],
        entryById |-> entryById,
        pairwise |-> grouped.pairwise]

\* --- public/js/similarity.js
\* the intersection of the lists, in the order of the first one
commonValues(ls) ==
    IF ls = <<>> THEN <<>>
    ELSE LET first == ls[1]
             uniq == SelectSeq([p \in 1..Len(first) |->
                                   IF \E q \in 1..(p - 1) : first[q] = first[p]
                                   THEN 0 ELSE first[p]],
                               LAMBDA x : x # 0)
         IN SelectSeq(uniq, LAMBDA x :
                \A p \in 2..Len(ls) : x \in SeqToSet(ls[p]))

\* the total of an entry as the page reads it: counts.total, or the sum of
\* the parts it finds
totalOrSum(c) ==
    IF c.total.k = "num" THEN c.total
    ELSE Num(Coalesce(safeNum(c.male), 0) + Coalesce(safeNum(c.female), 0)
             + Coalesce(safeNum(c.kids), 0))

\* computeCommonAspects(bucket, entryById): the labels pushed and their values
computeCommonAspects(bucket, entryById) ==
    LET es == membersOf(bucket, entryById)
        cnt == Len(es)
        days == present([p \in 1..cnt |->
                    IF es[p].date.k = "iso" THEN Num(es[p].date.v) ELSE NoNum])
        locs == [p \in 1..cnt |-> normStr(es[p].location)]
        ransoms == present([p \in 1..cnt |-> es[p].ransom])
        trs == [p \in 1..cnt |-> normStr(es[p].transport)]
    IN [date |-> IF /\ Len(days) = cnt
                    /\ cnt > 0
                    /\ daysBetween(MinOf(days), MaxOf(days)) <= 1
                 THEN Some([earliest |-> MinOf(days), latest |-> MaxOf(days)])
                 ELSE null,
        location |-> IF /\ \A p \in 1..cnt : locs[p] # <<>>
                        /\ \A p \in 1..cnt : locs[p] = locs[1]
                     THEN Some(IF cnt = 0 THEN <<>> ELSE locs[1])
                     ELSE null,
        headcount |->
            [male |-> rangeWithin([p \in 1..cnt |-> es[p].counts.male], 1),
             female |-> rangeWithin([p \in 1..cnt |-> es[p].counts.female], 1),
             kids |-> rangeWithin([p \in 1..cnt |-> es[p].counts.kids], 1),
             total |-> rangeWithin([p \in 1..cnt |-> totalOrSum(es[p].counts)],
                                   3)],
        ransom |-> IF /\ Len(ransoms) = cnt
                      /\ 10 * (MaxOf(ransoms) - MinOf(ransoms))
                            <= Max2(MaxOf(ransoms), 1)
                   THEN Some([min |-> MinOf(ransoms), max |-> MaxOf(ransoms)])
                   ELSE null,
        eventType |-> commonValues([p \in 1..cnt |-> es[p].eventTypes.v]),
        transport |-> IF /\ \A p \in 1..cnt : trs[p] # <<>>
                         /\ \A p \in 1..cnt : trs[p] = trs[1]
                      THEN Some(IF cnt = 0 THEN <<>> ELSE trs[1])
                      ELSE null,
        conditions |-> commonValues([p \in 1..cnt |-> es[p].conditions.v])]

\* data.buckets.filter((b) => (b.size || 0) >= 2), then the aspects of each
commonAspectsOf(data) ==
    LET shown == SelectSeq(data.buckets, LAMBDA bk : bk.size >= 2)
    IN [g \in 1..Len(shown) |->
           [bucketId |-> shown[g].bucketId,
            entryIds |-> shown[g].entryIds,
            aspects |-> computeCommonAspects(shown[g], data.entryById)]]

\* --- the rows of the data file
\* getConsentedEntries() keeps id, date, location, ransom, male, female, kids
\* and total of each line. The rows vary on one attribute at a time.
RowAttributes == {"date", "location", "headcount", "ransom"}

RowValues(k) ==
    CASE k = "date" ->
           {[BlankRow EXCEPT !.date = d] :
               d \in {NoDate, Iso(0), Iso(1), Iso(MaxDay + 1)}}
      [] k = "location" ->
           {[BlankRow EXCEPT !.location = l] :
               l \in {NoStr, Str(LocAleppo), Str(LocAleppoLower)}}
      [] k = "headcount" ->
           {BlankRow,
            [BlankRow EXCEPT !.male = Num(5), !.female = Num(4),
                             !.kids = Num(1), !.total = Num(10)],
            [BlankRow EXCEPT !.male = Num(5), !.female = Num(4),
                             !.kids = Num(0), !.total = Num(14)],
            [BlankRow EXCEPT !.male = Num(1), !.female = Num(1)]}
      [] k = "ransom" ->
           {[BlankRow EXCEPT !.ransom = r] :
               r \in {NoNum, Num(100), Num(105), Num(200)}}

\* the ids of the rows: all different, or the last row without id
RowIdLists(len) ==
    {[p \in 1..len |-> p], [p \in 1..len |-> IF p = len THEN 0 ELSE p]}

RowLists ==
    UNION {{Arr([p \in 1..len |-> [f[p] EXCEPT !.id = ids[p]]]) :
               f \in [1..len -> RowValues(k)], ids \in RowIdLists(len)} :
           len \in 0..MaxEntries, k \in RowAttributes}

\* req.query.weights: none, or one that leaves location and counts only
RouteWeights == {NoWeights, [NoWeights EXCEPT !.date = Num(0),
                                              !.ransom = Num(0)]}

\* req.query.threshold: none (0.7) or 0.5
RouteThresholds == {NoNum, Num(SCALE \div 2)}

\* req.query.minSize: none (2), "1" or not a number
MinSizeValues == {NoNum, Num(1), NaNum}

\* the queries: every weights and threshold without minSize, and every
\* minSize with the weights and the threshold that group most rows
RouteQueries ==
    {[weights |-> w, threshold |-> t, minSize |-> NoNum] :
        w \in RouteWeights, t \in RouteThresholds}
    \cup {[weights |-> [NoWeights EXCEPT !.date = Num(0), !.ransom = Num(0)],
           threshold |-> Num(SCALE \div 2), minSize |-> m] :
              m \in MinSizeValues}

\* the lists another module passes: none, or at most one row
ServiceLists ==
    {NoArr} \cup {rs \in RowLists : Len(rs.v) <= 1}

\* a call of groupSimilarEntries by another module ("service"), which may
\* pass no list, or a request to the route ("request")
InitRoute ==
    /\ variant = "continuous"
    /\ \/ pc = "service" /\ rows \in ServiceLists
       \/ pc = "request" /\ rows \in RowLists
    /\ \E q \in RouteQueries :
          /\ weights = q.weights
          /\ threshold = q.threshold
          /\ minSize = q.minSize
    /\ response = NoResponse
    /\ weights2 = NoWeights
    /\ response2 = NoResponse
    /\ common = <<>>
    /\ entries = <<>>
    /\ i = 0
    /\ j = 0
    /\ parent = DSUParent(0)
    /\ size = DSUSize(0)
    /\ edges = <<>>
    /\ groups = <<>>
    /\ returned = NoReturn
    /\ threshold2 = NoNum
    /\ returned2 = NoReturn
    /\ NoScore
    /\ NoAux

\* groupSimilarEntries(rows, { threshold, weights }) called directly
GroupSimilarEntries ==
    /\ pc = "service"
    /\ returned' = groupSimilarEntries(rows, weights, threshold)
    /\ pc' = "grouped"
    /\ UNCHANGED <<variant, weights, entries, threshold, i, j, parent, size,
                   edges, groups, threshold2, returned2>>
    /\ UNCHANGED scoreVars
    /\ UNCHANGED routeVars
    /\ UNCHANGED auxVars

\* the handler of GET /api/entries/similar
GetSimilar ==
    /\ pc = "request"
    /\ LET grouped == groupSimilarEntries(rows, weights, threshold)
       IN /\ returned' = grouped
          /\ response' = similarResponse(grouped, rows, minSize)
    /\ pc' = "responded"
    /\ UNCHANGED <<variant, weights, entries, threshold, i, j, parent, size,
                   edges, groups, threshold2, returned2>>
    /\ UNCHANGED <<rows, minSize, weights2, response2, common>>
    /\ UNCHANGED scoreVars
    /\ UNCHANGED auxVars

\* the page computes the common aspects of the buckets it received
ComputeCommonAspects ==
    /\ pc = "responded"
    /\ common' = commonAspectsOf(response)
    /\ pc' = "explained"
    /\ UNCHANGED <<variant, weights>>
    /\ UNCHANGED clusterVars
    /\ UNCHANGED <<rows, minSize, response, weights2, response2>>
    /\ UNCHANGED scoreVars
    /\ UNCHANGED auxVars

\* a second request on the same rows, with other weights or with another
\* threshold
GetSimilarAgain ==
    /\ pc = "explained"
    /\ \E w \in RouteWeights, t \in RouteThresholds :
          /\ (w = weights) # (t = threshold)
          /\ weights2' = w
          /\ threshold2' = t
          /\ response2' = similarResponse(groupSimilarEntries(rows, w, t),
                                          rows, minSize)
    /\ pc' = "again"
    /\ UNCHANGED <<variant, weights, entries, threshold, i, j, parent, size,
                   edges, groups, returned, returned2>>
    /\ UNCHANGED <<rows, minSize, response, common>>
    /\ UNCHANGED scoreVars
    /\ UNCHANGED auxVars

NextRoute ==
    GroupSimilarEntries \/ GetSimilar \/ ComputeCommonAspects
        \/ GetSimilarAgain

SpecRoute == InitRoute /\ [][NextRoute]_vars

\* ------------------------------------------------------------------------
\* The enrichment and the page on one bucket of given rows
\* ------------------------------------------------------------------------
\* the rows vary on the event types, on the conditions or on the amount
ExplainAttributes == {"eventTypes", "conditions", "ransom"}

ExplainValues(k) ==
    CASE k = "eventTypes" ->
             {NoArr, Arr(<<1>>), Arr(<<1, 2>>), Arr(<<2, 1>>), Arr(<<11>>)}
      [] k = "conditions" -> {NoArr, Arr(<<1>>), Arr(<<2>>), Arr(<<1, 2>>)}
      [] k = "ransom" -> {NoNum, Num(0), Num(100), Num(115), Num(200)}

\* rows with the ids 1..len
ExplainLists ==
    UNION {UNION {{[p \in 1..len |->
                      [[BlankRow EXCEPT ![k] = vs[p]] EXCEPT !.id = p]] :
                   vs \in [1..len -> ExplainValues(k)]} :
                  k \in ExplainAttributes} : len \in 1..MaxEntries}

\* the bucket that holds all the rows
wholeBucket(list) ==
    [bucketId |-> 1, entryIds |-> [p \in 1..Len(list) |-> list[p].id],
     size |-> Len(list)]

InitExplain ==
    /\ variant = "continuous"
    /\ weights = NoWeights
    /\ pc = "bucket"
    /\ rows \in {Arr(list) : list \in ExplainLists}
    /\ minSize = NoNum
    /\ response = NoResponse
    /\ weights2 = NoWeights
    /\ response2 = NoResponse
    /\ common = <<>>
    /\ NoCluster
    /\ NoScore
    /\ NoAux

\* buckets.map(...) of the route on the bucket of all the rows
EnrichBucket ==
    /\ pc = "bucket"
    /\ response' = [buckets |-> <<enrich(wholeBucket(rows.v),
                                         buildEntryById(rows.v))>>,
                    entryById |-> buildEntryById(rows.v),
                    pairwise |-> <<>>]
    /\ pc' = "responded"
    /\ UNCHANGED <<variant, weights>>
    /\ UNCHANGED clusterVars
    /\ UNCHANGED <<rows, minSize, weights2, response2, common>>
    /\ UNCHANGED scoreVars
    /\ UNCHANGED auxVars

NextExplain == EnrichBucket \/ ComputeCommonAspects

SpecExplain == InitExplain /\ [][NextExplain]_vars

\* ------------------------------------------------------------------------
\* Two calls of clusterEntries in progress at once
\* ------------------------------------------------------------------------
\* a call that has its arguments and has not run a statement yet
newCall(es, t) ==
    [entries |-> es, threshold |-> t, pc |-> "start", i |-> 0, j |-> 0,
     parent |-> <<>>, size |-> <<>>, edges |-> <<>>, groups |-> <<>>,
     returned |-> NoReturn]

\* the next statement of one call, on its own locals
stepCall(c, v, w) ==
    LET len == Len(c.entries)
    IN CASE c.pc = "start" ->
              [c EXCEPT !.parent = DSUParent(len), !.size = DSUSize(len),
                        !.edges = <<>>, !.i = firstPair(len)[1],
                        !.j = firstPair(len)[2], !.pc = "pairs"]
         [] c.pc = "pairs" /\ c.i < len ->
              LET st == comparePair(v, c.entries, w, c.threshold,
                                    [parent |-> c.parent, size |-> c.size,
                                     edges |-> c.edges], c.i, c.j)
              IN [c EXCEPT !.parent = st.parent, !.size = st.size,
                           !.edges = st.edges,
                           !.i = nextPair(len, c.i, c.j)[1],
                           !.j = nextPair(len, c.i, c.j)[2]]
         [] c.pc = "pairs" /\ c.i >= len ->
              [c EXCEPT !.pc = "groups", !.i = 0]
         [] c.pc = "groups" /\ c.i < len ->
              LET g == groupStep(c.parent, c.groups, c.i)
              IN [c EXCEPT !.parent = g.parent, !.groups = g.groups,
                           !.i = c.i + 1]
         [] OTHER ->
              [c EXCEPT !.returned =
                            [buckets |-> makeBuckets(v, c.entries, c.groups,
                                                     c.edges),
                             pairwise |-> c.edges],
                        !.pc = "done"]

\* calls that push to one edge list kept outside the function
stepCallsSharedEdges(cs, p, v, w) ==
    [q \in 1..Len(cs) |->
        IF q = p THEN stepCall(cs[p], v, w)
        ELSE [cs[q] EXCEPT !.edges = stepCall(cs[p], v, w).edges]]

\* a statement of call p: the locals of the other call are out of its reach
stepCalls(cs, p, v, w) == [cs EXCEPT ![p] = stepCall(cs[p], v, w)]

\* the lists of the two calls: dates 0 and 2, ids 1..len
CallLists ==
    UNION {{[p \in 1..len |-> [ClusterRecords[f[p]] EXCEPT !.id = p]] :
               f \in [1..len -> {1, 3}]} : len \in 0..MaxEntries}

reverse(list) == [p \in 1..Len(list) |-> list[Len(list) + 1 - p]]

InitCalls ==
    /\ variant \in Variants
    /\ weights \in ClusterWeights
    /\ pc = "calls"
    /\ \E es \in CallLists, t \in {NoNum, Num((8 * SCALE) \div 10)},
          back \in BOOLEAN :
          calls = <<newCall(es, NoNum),
                    newCall(IF back THEN reverse(es) ELSE es, t)>>
    /\ index = <<>>
    /\ pod = {}
    /\ handlers = <<>>
    /\ NoCluster
    /\ NoScore
    /\ NoRoute

\* one statement of one of the calls
StepCall(p) ==
    /\ pc = "calls"
    /\ calls[p].pc # "done"
    /\ calls' = stepCalls(calls, p, variant, weights)
    /\ UNCHANGED <<variant, weights, pc, index, pod, handlers>>
    /\ UNCHANGED clusterVars
    /\ UNCHANGED scoreVars
    /\ UNCHANGED routeVars

NextCalls == \E p \in 1..2 : StepCall(p)

SpecCalls == InitCalls /\ [][NextCalls]_vars

\* ------------------------------------------------------------------------
\* A DSU under any sequence of union and find
\* ------------------------------------------------------------------------
\* new DSU(len), for 1 to MaxEntries + 1 elements
InitDSU ==
    /\ variant \in Variants
    /\ weights = NoWeights
    /\ pc = "dsu"
    /\ \E len \in 1..(MaxEntries + 1) :
          /\ parent = DSUParent(len)
          /\ size = DSUSize(len)
    /\ entries = <<>>
    /\ threshold = NoNum
    /\ i = 0
    /\ j = 0
    /\ edges = <<>>
    /\ groups = <<>>
    /\ returned = NoReturn
    /\ threshold2 = NoNum
    /\ returned2 = NoReturn
    /\ NoScore
    /\ NoRoute
    /\ NoAux

\* dsu.union(x, y)
Union(x, y) ==
    /\ pc = "dsu"
    /\ LET d == union([parent |-> parent, size |-> size], x, y)
       IN /\ parent' = d.parent
          /\ size' = d.size
    /\ UNCHANGED <<variant, weights, pc, entries, threshold, i, j, edges,
                   groups, returned, threshold2, returned2>>
    /\ UNCHANGED scoreVars
    /\ UNCHANGED routeVars
    /\ UNCHANGED auxVars

\* dsu.find(x)
Find(x) ==
    /\ pc = "dsu"
    /\ parent' = find(parent, x).parent
    /\ UNCHANGED <<variant, weights, pc, entries, threshold, i, j, size,
                   edges, groups, returned, threshold2, returned2>>
    /\ UNCHANGED scoreVars
    /\ UNCHANGED routeVars
    /\ UNCHANGED auxVars

NextDSU ==
    \/ \E x, y \in DOMAIN parent : Union(x, y)
    \/ \E x \in DOMAIN parent : Find(x)

SpecDSU == InitDSU /\ [][NextDSU]_vars

\* ------------------------------------------------------------------------
\* The consent index data/consented-journals.jsonl and its three handlers
\* ------------------------------------------------------------------------
\* a URL: the resource it names and whether it is spelled percent-encoded
Url(r, e) == [res |-> r, enc |-> e]

\* a line JSON.stringify wrote, and a line JSON.parse rejects
Line(u) == [k |-> "json", url |-> u]
BadLine == [k |-> "bad", url |-> Url(0, FALSE)]

NoFile == [exists |-> FALSE, lines |-> <<>>]
File(ls) == [exists |-> TRUE, lines |-> ls]

\* decodeURIComponent, trailing slashes cut, scheme and host lower-cased
normalizeUrl(u) == Url(u.res, FALSE)

removeFromConsentIndexByUrlSync(jsonlText, targetUrl) ==
    SelectSeq(jsonlText, LAMBDA l :
        l.k = "bad" \/ normalizeUrl(l.url) # normalizeUrl(targetUrl))

\* the files the handlers may find: none, or up to MaxEntries - 1 lines for
\* the resources 1 and 2 and a malformed line, each at most once
IndexFiles ==
    LET pool == {Line(Url(1, FALSE)), Line(Url(2, FALSE)), BadLine}
    IN {NoFile}
       \cup {File(ls) : ls \in
               {t \in UNION {[1..len -> pool] : len \in 0..(MaxEntries - 1)} :
                   \A p, q \in DOMAIN t : p # q => t[p] # t[q]}}

InitIndex ==
    /\ variant = "strict"
    /\ weights = NoWeights
    /\ pc = "index"
    /\ index \in IndexFiles
    /\ pod \in SUBSET {1, 2}
    /\ \E u \in {Url(r, e) : r \in {1, 2}, e \in BOOLEAN} :
          handlers = [post |-> [pc |-> "idle", url |-> Url(3, FALSE)],
                      delete |-> [pc |-> "idle", url |-> u, txt |-> <<>>],
                      prune |-> [pc |-> "idle", rows |-> <<>>,
                                 alive |-> <<>>]]
    /\ calls = <<>>
    /\ NoCluster
    /\ NoScore
    /\ NoRoute

\* POST /journal with consent: saveSolidDatasetAt(resourceUrl, ...)
SaveEntry ==
    /\ pc = "index"
    /\ handlers.post.pc = "idle"
    /\ pod' = pod \cup {handlers.post.url.res}
    /\ handlers' = [handlers EXCEPT !.post.pc = "saved"]
    /\ UNCHANGED <<variant, weights, pc, calls, index>>
    /\ UNCHANGED clusterVars
    /\ UNCHANGED scoreVars
    /\ UNCHANGED routeVars

\* appendConsentedLink: fsp.appendFile, which creates the file if need be
AppendConsentedLink ==
    /\ pc = "index"
    /\ handlers.post.pc = "saved"
    /\ index' = File(Append(index.lines, Line(handlers.post.url)))
    /\ handlers' = [handlers EXCEPT !.post.pc = "done"]
    /\ UNCHANGED <<variant, weights, pc, calls, pod>>
    /\ UNCHANGED clusterVars
    /\ UNCHANGED scoreVars
    /\ UNCHANGED routeVars

\* POST /journal/delete: sessionNode.fetch(resourceUrl, DELETE); 502 when
\* the pod has no such resource
DeleteResource ==
    /\ pc = "index"
    /\ handlers.delete.pc = "idle"
    /\ pod' = pod \ {handlers.delete.url.res}
    /\ handlers' = [handlers EXCEPT
                       !.delete.pc = IF handlers.delete.url.res \in pod
                                     THEN "deleted" ELSE "failed"]
    /\ UNCHANGED <<variant, weights, pc, calls, index>>
    /\ UNCHANGED clusterVars
    /\ UNCHANGED scoreVars
    /\ UNCHANGED routeVars

\* txt = await fsp.readFile(...); a missing file is ignored and the request
\* answered
DeleteReadIndex ==
    /\ pc = "index"
    /\ handlers.delete.pc = "deleted"
    /\ handlers' = [handlers EXCEPT
                       !.delete.pc = IF index.exists THEN "read"
                                     ELSE "answered",
                       !.delete.txt = index.lines]
    /\ UNCHANGED <<variant, weights, pc, calls, index, pod>>
    /\ UNCHANGED clusterVars
    /\ UNCHANGED scoreVars
    /\ UNCHANGED routeVars

\* cleaned = removeFromConsentIndexByUrlSync(txt, resourceUrl), written when
\* it differs from txt; then "Entry deleted."
DeleteWriteIndex ==
    /\ pc = "index"
    /\ handlers.delete.pc = "read"
    /\ LET cleaned == removeFromConsentIndexByUrlSync(handlers.delete.txt,
                                                      handlers.delete.url)
       IN index' = IF cleaned # handlers.delete.txt THEN File(cleaned)
                   ELSE index
    /\ handlers' = [handlers EXCEPT !.delete.pc = "answered"]
    /\ UNCHANGED <<variant, weights, pc, calls, pod>>
    /\ UNCHANGED clusterVars
    /\ UNCHANGED scoreVars
    /\ UNCHANGED routeVars

\* GET /ngo/consented-journals: the file is read and every line parsed; with
\* no file or a line that does not parse the answer is [] at once
PruneRead ==
    /\ pc = "index"
    /\ handlers.prune.pc = "idle"
    /\ handlers' = [handlers EXCEPT
                       !.prune.pc =
                           IF /\ index.exists
                              /\ \A p \in DOMAIN index.lines :
                                    index.lines[p].k = "json"
                           THEN "read" ELSE "done",
                       !.prune.rows = index.lines]
    /\ UNCHANGED <<variant, weights, pc, calls, index, pod>>
    /\ UNCHANGED clusterVars
    /\ UNCHANGED scoreVars
    /\ UNCHANGED routeVars

\* the HEAD (or GET) probes of the rows, all answered at one moment
PruneProbe ==
    /\ pc = "index"
    /\ handlers.prune.pc = "read"
    /\ handlers' = [handlers EXCEPT
                       !.prune.pc = "probed",
                       !.prune.alive =
                           [p \in DOMAIN handlers.prune.rows |->
                               handlers.prune.rows[p].url.res \in pod]]
    /\ UNCHANGED <<variant, weights, pc, calls, index, pod>>
    /\ UNCHANGED clusterVars
    /\ UNCHANGED scoreVars
    /\ UNCHANGED routeVars

\* the file is rewritten with the rows found alive when some row was not
PruneRewrite ==
    /\ pc = "index"
    /\ handlers.prune.pc = "probed"
    /\ LET aliveRows == SelectSeq(handlers.prune.rows, LAMBDA l :
                            \E p \in DOMAIN handlers.prune.rows :
                                /\ handlers.prune.rows[p] = l
                                /\ handlers.prune.alive[p])
       IN index' = IF Len(aliveRows) # Len(handlers.prune.rows)
                   THEN File(aliveRows) ELSE index
    /\ handlers' = [handlers EXCEPT !.prune.pc = "done"]
    /\ UNCHANGED <<variant, weights, pc, calls, pod>>
    /\ UNCHANGED clusterVars
    /\ UNCHANGED scoreVars
    /\ UNCHANGED routeVars

NextIndex ==
    \/ SaveEntry \/ AppendConsentedLink
    \/ DeleteResource \/ DeleteReadIndex \/ DeleteWriteIndex
    \/ PruneRead \/ PruneProbe \/ PruneRewrite

SpecIndex == InitIndex /\ [][NextIndex]_vars

\* ------------------------------------------------------------------------
\* Properties of clusterEntries
\* ------------------------------------------------------------------------
Returned == pc = "done"

Positions == 0..(n - 1)

idOf(p) == entries[p + 1].id

InputIds == {idOf(p) : p \in Positions}

UniqueIds == \A p, q \in Positions : p # q => idOf(p) # idOf(q)

BucketIds(bk) == SeqToSet(bk.entryIds)

BucketsOf(r, id) == {g \in 1..Len(r.buckets) : id \in BucketIds(r.buckets[g])}

UsedThreshold ==
    IF threshold.k = "absent" THEN (7 * SCALE) \div 10 ELSE threshold.v

\* the overall similarity of every pair of positions p < q
Similarities ==
    [p \in Positions |-> [q \in Positions |->
        IF p < q THEN similarityOf(p, q) ELSE 0]]

\* the pair {p, q} qualifies: its overall similarity reaches the threshold
Qualifies(sim, p, q) ==
    p # q /\ sim[Min2(p, q)][Max2(p, q)] >= UsedThreshold

\* the positions reachable from the set S along qualifying pairs
RECURSIVE Reach(_, _)
Reach(sim, S) ==
    LET T == S \cup {q \in Positions : \E p \in S : Qualifies(sim, p, q)}
    IN IF T = S THEN S ELSE Reach(sim, T)

QualifyingPairs(sim) ==
    {pq \in Positions \X Positions :
        pq[1] < pq[2] /\ Qualifies(sim, pq[1], pq[2])}

\* C1: for records with unique ids the returned buckets partition the input
\* ids: every input id is in exactly one bucket and once in it, the union of
\* the buckets is the set of input ids, and a record with no qualifying pair
\* is a bucket of its own.
C1_BucketsPartitionInput ==
    (Returned /\ UniqueIds) =>
        LET sim == Similarities
        IN /\ \A p \in Positions :
                 Cardinality(BucketsOf(returned, idOf(p))) = 1
           /\ SumSeq([g \in 1..Len(returned.buckets) |->
                         Len(returned.buckets[g].entryIds)]) = n
           /\ UNION {BucketIds(returned.buckets[g]) :
                        g \in 1..Len(returned.buckets)} = InputIds
           /\ \A g \in 1..Len(returned.buckets) :
                 /\ returned.buckets[g].entryIds # <<>>
                 /\ returned.buckets[g].size
                       = Len(returned.buckets[g].entryIds)
           /\ \A p \in Positions :
                 (\A q \in Positions : ~Qualifies(sim, p, q)) =>
                     \E g \in 1..Len(returned.buckets) :
                         returned.buckets[g].entryIds = <<idOf(p)>>

C1_Witness ==
    /\ pc = "done"
    /\ UniqueIds
    /\ n = 3
    /\ Len(returned.buckets) = 2
    /\ returned.buckets[1].size = 2
    /\ returned.buckets[2].size = 1

\* C2: two records are in the same bucket exactly when a path of qualifying
\* pairs connects them (the buckets are the connected components).
C2_BucketsAreComponents ==
    (Returned /\ UniqueIds) =>
        LET sim == Similarities
            component == [p \in Positions |-> Reach(sim, {p})]
        IN \A p, q \in Positions :
               (BucketsOf(returned, idOf(p)) = BucketsOf(returned, idOf(q)))
                   <=> q \in component[p]

\* two records that do not qualify as a pair share a bucket through a third
C2_Witness ==
    /\ pc = "done"
    /\ UniqueIds
    /\ \E p, q \in Positions :
          /\ p # q
          /\ ~Qualifies(Similarities, p, q)
          /\ BucketsOf(returned, idOf(p)) = BucketsOf(returned, idOf(q))
    /\ Len(returned.buckets) = 1

\* C3: the pairwise list holds one edge {a: id of entries[i], b: id of
\* entries[j]} for each pair i < j whose overall similarity is >= threshold
\* (0.7 when none is given), and nothing else.
C3_EdgesAreQualifyingPairs ==
    Returned =>
        LET pairs == QualifyingPairs(Similarities)
            pw == returned.pairwise
        IN /\ Len(pw) = Cardinality(pairs)
           /\ \A pq \in pairs :
                 \E e \in 1..Len(pw) :
                     pw[e].a = idOf(pq[1]) /\ pw[e].b = idOf(pq[2])
           /\ UniqueIds =>
                 \A e \in 1..Len(pw) :
                     /\ pw[e].a # pw[e].b
                     /\ \E pq \in pairs :
                           pw[e].a = idOf(pq[1]) /\ pw[e].b = idOf(pq[2])
                     /\ \A f \in 1..Len(pw) :
                           (pw[f].a = pw[e].a /\ pw[f].b = pw[e].b) => f = e

\* some pairs qualify and some do not, one of them exactly at the threshold
C3_Witness ==
    /\ pc = "done"
    /\ UniqueIds
    /\ n = 3
    /\ Len(returned.pairwise) = 1
    /\ \E pq \in QualifyingPairs(Similarities) :
          similarityOf(pq[1], pq[2]) = UsedThreshold

\* C4: with the same records and weights, every bucket at the higher
\* threshold lies inside one bucket at the lower threshold.
C4_HigherThresholdRefines ==
    (pc = "compared" /\ thresholdOf(threshold) < thresholdOf(threshold2)) =>
        \A g2 \in 1..Len(returned2.buckets) :
            \E g1 \in 1..Len(returned.buckets) :
                BucketIds(returned2.buckets[g2])
                    \subseteq BucketIds(returned.buckets[g1])

\* the higher threshold splits a bucket
C4_Witness ==
    /\ pc = "compared"
    /\ thresholdOf(threshold) < thresholdOf(threshold2)
    /\ UniqueIds
    /\ Len(returned.buckets) = 1
    /\ Len(returned2.buckets) = 3

\* ------------------------------------------------------------------------
\* Properties of overallSimilarity
\* ------------------------------------------------------------------------
Aspects == SeqToSet(AspectsOf(variant))

\* the attribute of aspect k is absent, null or empty on the record r
Missing(k, r) ==
    CASE k = "date" -> r.date.k = "absent"
      [] k = "location" -> r.location = NoStr \/ r.location = Str(<<>>)
      [] k = "counts" ->
            \/ r.counts.k = "absent"
            \/ \A f \in {"male", "female", "kids", "total"} :
                  r.counts[f].k = "absent"
      [] k = "ransom" -> r.ransom.k = "absent"
      [] k = "eventTypes" -> r.eventTypes.k = "absent" \/ r.eventTypes.v = <<>>
      [] k = "transport" -> r.transport = NoStr \/ r.transport = Str(<<>>)
      [] k = "conditions" -> r.conditions.k = "absent" \/ r.conditions.v = <<>>

PresentOnBoth(k) == ~Missing(k, a) /\ ~Missing(k, b)

\* the attribute of aspect k is on the record r and reads as a date or as a
\* number where the aspect needs one
Usable(k, r) ==
    /\ ~Missing(k, r)
    /\ k = "date" => r.date.k = "iso"
    /\ k = "ransom" => r.ransom.k = "num"

PositiveWeight(k) == weights[k].k = "num" /\ weights[k].v > 0

Weighted == {k \in Aspects : PositiveWeight(k)}

\* b is a copy of a under another id
SameAttributes == \A k \in AllAspects : a[k] = b[k]

RECURSIVE SumOver(_, _)
SumOver(K, f) ==
    IF K = {} THEN 0
    ELSE LET k == CHOOSE x \in K : TRUE
         IN f[k] + SumOver(K \ {k}, f)

\* the aspects in K in the order of the add() calls
RECURSIVE InOrder(_, _)
InOrder(ks, K) ==
    IF ks = <<>> THEN <<>>
    ELSE IF Head(ks) \in K THEN <<Head(ks)>> \o InOrder(Tail(ks), K)
    ELSE InOrder(Tail(ks), K)

\* C5: overallSimilarity(a, b, w) = overallSimilarity(b, a, w) for all
\* records and weight maps, in the continuous and in the strict variant,
\* also when an attribute is missing on one side only.
C5_Symmetric == (pc = "swapped") => (result = swapped)

\* an attribute is on one record only and the score is not 0
C5_Witness ==
    /\ pc = "swapped"
    /\ \E k \in Weighted : Missing(k, a) /\ ~Missing(k, b)
    /\ a # [b EXCEPT !.id = a.id]
    /\ result = swapped
    /\ result > 0

\* C6: with a non-negative weight map that has a positive weight, and a
\* defined aspect score, overallSimilarity lies in [0, 1].
C6_WithinUnitInterval ==
    (/\ pc = "scored"
     /\ \A k \in Aspects : weights[k].k = "num" => weights[k].v >= 0
     /\ Weighted # {}
     /\ parts # <<>>)
        => (0 <= result /\ result <= SCALE)

\* C7: a record against a copy of itself scores 1.0 on every aspect that
\* both carry, and overall 1.0 under a weight map with a positive weight
\* (here: all the positively weighted aspects are on the record).
C7_CopyScoresOne ==
    (/\ pc = "scored"
     /\ SameAttributes
     /\ Weighted # {}
     /\ \A k \in Weighted : Usable(k, a))
        => /\ \A k \in Aspects : Usable(k, a) => scores[k] = SCALE
           /\ result = SCALE

\* C8: every aspect function returns 0 when the attribute is missing
\* (absent, null or empty) on either of the two records.
C8_MissingScoresZero ==
    (pc = "scored") =>
        \A k \in Aspects : (Missing(k, a) \/ Missing(k, b)) => scores[k] = 0

C10_WeightedAverage ==
    (pc = "scored") =>
        LET W == SumOver(Weighted, [k \in Weighted |-> weights[k].v])
            num == SumOver(Weighted,
                           [k \in Weighted |-> weights[k].v * scores[k]])
        IN /\ Weighted = {} => result = 0
           /\ Weighted # {} => (W > 0 /\ result = num \div W)

\* an aspect with a negative weight scores above 0 and is left out
C10_Witness ==
    /\ pc = "scored"
    /\ \E k \in Aspects :
          /\ weights[k].k = "num"
          /\ weights[k].v < 0
          /\ scores[k] = SCALE
    /\ \E k \in Weighted : weights[k].v > 1
    /\ result = 0

\* the weights with every value that is not a number > 0 taken as no weight
WellFormedOnly ==
    [k \in AllAspects |->
        IF weights[k].k = "num" /\ weights[k].v > 0 THEN weights[k] ELSE NoNum]

\* the weights with every string of digits read as its number
DigitsAsNumbers ==
    [k \in AllAspects |->
        IF weights[k].k = "str" THEN Num(weights[k].v) ELSE weights[k]]

\* C11: with malformed or partial weights, unknown keys are ignored and a
\* non-numeric or negative weight counts as weight 0, so the result is the
\* one the well-formed weights alone give (here also allowed: the one the
\* weights give when a string of digits is read as its number), in [0, 1].
C11_MalformedWeightIsZero ==
    (pc = "scored") =>
        result \in {overallSimilarity(variant, a, b, WellFormedOnly),
                    overallSimilarity(variant, a, b, DigitsAsNumbers)}

\* ------------------------------------------------------------------------
\* Properties of the bucket list
\* ------------------------------------------------------------------------
\* the smallest input position of a member of the bucket bk
FirstPosition(bk) ==
    CHOOSE p \in Positions :
        /\ idOf(p) \in BucketIds(bk)
        /\ \A q \in Positions : idOf(q) \in BucketIds(bk) => p <= q

\* C13: the buckets are in descending order of size, and buckets of the same
\* size are in the order in which their components were discovered, which is
\* the order of the smallest input position of their members.
C13_BucketsBySizeThenDiscovery ==
    (Returned /\ UniqueIds) =>
        \A g, h \in 1..Len(returned.buckets) :
            g < h =>
                \/ returned.buckets[g].size > returned.buckets[h].size
                \/ /\ returned.buckets[g].size = returned.buckets[h].size
                   /\ returned.buckets[g].bucketId
                         < returned.buckets[h].bucketId
                   /\ FirstPosition(returned.buckets[g])
                         < FirstPosition(returned.buckets[h])

\* the component found second is the larger one and comes first, ahead of
\* two buckets of one size that keep their order
C13_Witness ==
    /\ pc = "done"
    /\ UniqueIds
    /\ Len(returned.buckets) = 2
    /\ returned.buckets[1].bucketId = 2
    /\ returned.buckets[1].size = 2
    /\ returned.buckets[2].size = 1

\* the elements of an event-type or condition attribute (none when absent)
Elements(x) == IF x.k = "arr" THEN SeqToSet(x.v) ELSE {}

\* C17: two records whose event-type sets share no element score 0 on the
\* event-type aspect, whatever their other attributes.
C17_DisjointEventTypesScoreZero ==
    (/\ pc = "scored"
     /\ variant = "strict"
     /\ Elements(a.eventTypes) \cap Elements(b.eventTypes) = {})
        => scores.eventTypes = 0

\* C16: for the reports A, B and C with weights 1 on date, location, counts
\* and ransom and threshold 0.6, clustering puts A and B in one bucket and C
\* in a bucket of its own.
C16_ReportsAandBTogether ==
    Returned =>
        /\ Len(returned.buckets) = 2
        /\ BucketIds(returned.buckets[1]) = {ReportA.id, ReportB.id}
        /\ returned.buckets[1].size = 2
        /\ returned.buckets[2].entryIds = <<ReportC.id>>
        /\ returned.buckets[2].size = 1

\* C comes first in the list and ends in the second bucket
C16_Witness ==
    /\ pc = "done"
    /\ entries = <<ReportC, ReportA, ReportB>>
    /\ threshold = ReportThreshold
    /\ returned.buckets[1].entryIds = <<ReportA.id, ReportB.id>>
    /\ returned.buckets[2].entryIds = <<ReportC.id>>
    /\ Len(returned.pairwise) = 1

\* ------------------------------------------------------------------------
\* Properties of the service and of the route
\* ------------------------------------------------------------------------
\* a bucket as clustering made it
Plain(bk) ==
    [bucketId |-> bk.bucketId, entryIds |-> bk.entryIds, size |-> bk.size]

\* C12: for an empty list, or for no list at all passed to
\* groupSimilarEntries, clustering returns no bucket and no edge, and does
\* not fail.
C12_EmptyInputEmptyOutput ==
    /\ (pc = "grouped" /\ (rows = NoArr \/ rows.v = <<>>))
          => returned = NoReturn
    /\ (pc = "responded" /\ rows.v = <<>>)
          => /\ returned = NoReturn
             /\ response.buckets = <<>>
             /\ response.pairwise = <<>>

\* the service was called without a list
C12_Witness ==
    /\ pc = "grouped"
    /\ rows = NoArr
    /\ returned = NoReturn

\* C14: the buckets of the response are exactly the buckets of the
\* clustering whose size is at least minSize (2 when there is none), with
\* the members clustering gave them, and the edge list and the clustering
\* are those of the rows, the weights and the threshold alone.
C14_MinSizeOnlyFilters ==
    pc = "responded" =>
        /\ [g \in 1..Len(response.buckets) |-> Plain(response.buckets[g])]
              = SelectSeq([h \in 1..Len(returned.buckets) |->
                               Plain(returned.buckets[h])],
                          LAMBDA bk :
                              /\ minSize.k # "nan"
                              /\ bk.size >= (IF minSize.k = "absent" THEN 2
                                             ELSE minSize.v))
        /\ response.pairwise = returned.pairwise
        /\ returned = groupSimilarEntries(rows, weights, threshold)

\* the default filter drops a bucket of one row and keeps a larger one
C14_Witness ==
    /\ pc = "responded"
    /\ minSize = NoNum
    /\ Len(response.buckets) >= 1
    /\ Len(response.buckets) < Len(returned.buckets)
    /\ response.pairwise # <<>>

\* C19: the explanation steps leave membership alone: every bucket of the
\* response, and every bucket the page explains, has the bucketId, the
\* entryIds and the size that clustering gave it, and size counts entryIds.
C19_EnrichmentKeepsMembership ==
    /\ pc \in {"responded", "explained", "again"} =>
          \A g \in 1..Len(response.buckets) :
              /\ \E h \in 1..Len(returned.buckets) :
                     Plain(response.buckets[g]) = Plain(returned.buckets[h])
              /\ response.buckets[g].size = Len(response.buckets[g].entryIds)
    /\ pc \in {"explained", "again"} =>
          \A g \in 1..Len(common) :
              \E h \in 1..Len(returned.buckets) :
                  /\ common[g].bucketId = returned.buckets[h].bucketId
                  /\ common[g].entryIds = returned.buckets[h].entryIds

\* a bucket with a row that has no id is explained from the other row
C19_Witness ==
    /\ pc = "explained"
    /\ \E g \in 1..Len(response.buckets) :
          /\ response.buckets[g].entryIds = <<1, 0>>
          /\ response.buckets[g].summary.location # NoStr
    /\ common # <<>>

\* C20: the explanation of a bucket is a function of its members alone: two
\* requests on the same rows with other weights or another threshold give a
\* bucket of the same members the same summary, and the page the same
\* common aspects.
C20_ExplanationIgnoresWeights ==
    pc = "again" =>
        \A g \in 1..Len(response.buckets), h \in 1..Len(response2.buckets) :
            SeqToSet(response.buckets[g].entryIds)
                    = SeqToSet(response2.buckets[h].entryIds)
                => /\ response.buckets[g].summary
                         = response2.buckets[h].summary
                   /\ computeCommonAspects(response.buckets[g],
                                           response.entryById)
                         = computeCommonAspects(response2.buckets[h],
                                                response2.entryById)

\* two rows a day apart are one bucket under the default weights, where
\* their edge scores 0.716, and when date and ransom have weight 0
C20_Witness ==
    /\ pc = "again"
    /\ weights2 # weights
    /\ \E g \in 1..Len(response.buckets), h \in 1..Len(response2.buckets) :
          /\ response.buckets[g].entryIds = response2.buckets[h].entryIds
          /\ response.buckets[g].size = 2
          /\ response.buckets[g].summary.dateRange
                = Some([earliest |-> 0, latest |-> 1])
    /\ response.pairwise # response2.pairwise

\* the aspects the explainers decide on, the headcount parts one by one
Fields ==
    {"date", "location", "male", "female", "kids", "total", "ransom",
     "eventType", "transport", "conditions"}

HeadcountFields == {"male", "female", "kids", "total"}

\* the rows that are members of the bucket bk
MemberRows(bk) ==
    {p \in 1..Len(rows.v) : rows.v[p].id \in SeqToSet(bk.entryIds)}

\* the row r has the attribute f (a total is also had as the sum of the
\* parts, when there is one)
HasAttribute(r, f) ==
    CASE f = "date" -> normalizeDate(r) # NoDate
      [] f = "location" -> normalizeLocation(r) # NoStr
      [] f = "male" -> extractCounts(r).male # NoNum
      [] f = "female" -> extractCounts(r).female # NoNum
      [] f = "kids" -> extractCounts(r).kids # NoNum
      [] f = "total" -> extractCounts(r).total # NoNum
      [] f = "ransom" -> extractRansom(r) # NoNum
      [] f = "eventType" -> extractEventTypes(r).v # <<>>
      [] f = "transport" -> extractTransport(r) # NoStr
      [] f = "conditions" -> extractConditions(r).v # <<>>

\* the summary sm of the route marks f as shared
ServerMarks(sm, f) ==
    CASE f = "date" -> sm.dateRange # null
      [] f = "location" -> sm.location # NoStr
      [] f = "male" -> sm.counts.male # null
      [] f = "female" -> sm.counts.female # null
      [] f = "kids" -> sm.counts.kids # null
      [] f = "total" -> sm.counts.total # null
      [] f = "ransom" -> sm.ransom # null
      [] f = "eventType" -> sm.eventType # null
      [] f = "transport" -> sm.transport # NoStr
      [] f = "conditions" -> sm.conditions # null

\* the aspects as of the page mark f as shared ("event type" and
\* "conditions" with the value "—" mark nothing)
ClientMarks(as, f) ==
    CASE f = "date" -> as.date # null
      [] f = "location" -> as.location # null
      [] f = "male" -> as.headcount.male # null
      [] f = "female" -> as.headcount.female # null
      [] f = "kids" -> as.headcount.kids # null
      [] f = "total" -> as.headcount.total # null
      [] f = "ransom" -> as.ransom # null
      [] f = "eventType" -> as.eventType # <<>>
      [] f = "transport" -> as.transport # null
      [] f = "conditions" -> as.conditions # <<>>

\* C15: for every bucket and every aspect, neither the summary of the route
\* nor the common aspects of the page mark the aspect as shared when a
\* member of the bucket is missing that attribute.
C15_SharedOnlyIfAllHave ==
    pc = "explained" =>
        \A f \in Fields :
            /\ \A g \in 1..Len(response.buckets) :
                   ServerMarks(response.buckets[g].summary, f)
                       => \A p \in MemberRows(response.buckets[g]) :
                              HasAttribute(rows.v[p], f)
            /\ \A g \in 1..Len(common) :
                   ClientMarks(common[g].aspects, f)
                       => \A p \in MemberRows(common[g]) :
                              HasAttribute(rows.v[p], f)

\* the spread of the headcount part f over the members of bk is at most tol
WithinTolerance(bk, f, tol) ==
    \A p \in MemberRows(bk), q \in MemberRows(bk) :
        Abs(extractCounts(rows.v[p])[f].v - extractCounts(rows.v[q])[f].v)
            <= tol

\* C18: a headcount part is marked shared only if every member has it and
\* the members differ by at most 1 on male, female and kids and by at most
\* 3 on total, each part on its own.
C18_HeadcountPerSubField ==
    pc = "explained" =>
        \A f \in HeadcountFields :
            LET tol == IF f = "total" THEN 3 ELSE 1
            IN /\ \A g \in 1..Len(response.buckets) :
                      ServerMarks(response.buckets[g].summary, f)
                          => /\ \A p \in MemberRows(response.buckets[g]) :
                                    HasAttribute(rows.v[p], f)
                             /\ WithinTolerance(response.buckets[g], f, tol)
               /\ \A g \in 1..Len(common) :
                      ClientMarks(common[g].aspects, f)
                          => /\ \A p \in MemberRows(common[g]) :
                                    HasAttribute(rows.v[p], f)
                             /\ WithinTolerance(common[g], f, tol)


\* ------------------------------------------------------------------------
\* Properties of the explanation of one bucket
\* ------------------------------------------------------------------------
SetFields == {"eventType", "conditions"}

\* the normalized set of a member for a set-valued aspect
NormalizedSet(r, f) ==
    LET x == asArray(IF f = "eventType" THEN r.eventTypes ELSE r.conditions)
    IN {lowerValue(x.v[p]) : p \in 1..Len(x.v)}

AllIdentical(f) ==
    /\ NormalizedSet(rows.v[1], f) # {}
    /\ \A p \in 1..Len(rows.v) :
          NormalizedSet(rows.v[p], f) = NormalizedSet(rows.v[1], f)

LoweredSet(xs) == {lowerValue(xs[p]) : p \in 1..Len(xs)}

\* the route marks a set-valued aspect exactly when all the members have the
\* same normalized set, and then shows that set
RouteSetAspects ==
    (pc = "explained" /\ common # <<>>)
        => \A f \in SetFields :
              LET sv == response.buckets[1].summary[f]
              IN /\ (sv # null) <=> AllIdentical(f)
                 /\ sv # null
                       => LoweredSet(sv[1]) = NormalizedSet(rows.v[1], f)

\* the same for the aspects the page computes
PageSetAspects ==
    (pc = "explained" /\ common # <<>>)
        => \A f \in SetFields :
              LET cv == common[1].aspects[f]
              IN /\ (cv # <<>>) <=> AllIdentical(f)
                 /\ cv # <<>>
                       => LoweredSet(cv) = NormalizedSet(rows.v[1], f)

\* C21: for the event types and for the conditions, the explanation marks
\* the aspect shared exactly when every member of the bucket has the same
\* normalized set, and then shows that common set; otherwise it shows the
\* aspect with the marker of no shared value.
C21_SetAspectsSharedIffIdentical == RouteSetAspects /\ PageSetAspects

\* every member has an amount, and the amounts are all the same or none is
\* further than 10% of the mean from the mean
AmountsAgree ==
    LET cnt == Len(rows.v)
        sum == SumSeq([p \in 1..cnt |-> rows.v[p].ransom.v])
    IN /\ \A p \in 1..cnt : rows.v[p].ransom.k = "num"
       /\ \/ \A p \in 1..cnt : rows.v[p].ransom.v = rows.v[1].ransom.v
          \/ /\ sum > 0
             /\ \A p \in 1..cnt :
                   10 * Abs(rows.v[p].ransom.v * cnt - sum) <= sum

RouteAmount ==
    (pc = "explained" /\ common # <<>>)
        => ((response.buckets[1].summary.ransom # null) <=> AmountsAgree)

PageAmount ==
    (pc = "explained" /\ common # <<>>)
        => ((common[1].aspects.ransom # null) <=> AmountsAgree)

\* C22: the amount is marked shared exactly when every member of the bucket
\* has an amount and no amount deviates from the mean by more than 10% of
\* the mean; members that all have the same amount, 0 included, share it.
C22_AmountSharedWithinTenPercent == RouteAmount /\ PageAmount

\* ------------------------------------------------------------------------
\* Properties of the buckets' aggregates
\* ------------------------------------------------------------------------
\* the returned edges with both ends in the bucket
EdgesInside(bk) ==
    {e \in SeqToSet(returned.pairwise) :
        e.a \in BucketIds(bk) /\ e.b \in BucketIds(bk)}

C24_CallsDoNotInterfere ==
    /\ [](pc = "calls" =>
            \A p \in 1..Len(calls) :
                calls[p].pc = "done" =>
                    calls[p].returned
                        = clusterEntries(variant, calls[p].entries, weights,
                                         calls[p].threshold))
    /\ [][pc = "calls" =>
             /\ weights' = weights
             /\ \A p \in 1..Len(calls) :
                   /\ calls'[p].entries = calls[p].entries
                   /\ calls'[p].threshold = calls[p].threshold]_vars

\* the first call has returned an edge while the second one, on the same
\* records in the other order, is between two comparisons with an edge of
\* its own
C24_Witness ==
    /\ pc = "calls"
    /\ calls[1].pc = "done"
    /\ calls[1].returned.pairwise # <<>>
    /\ calls[2].pc = "pairs"
    /\ calls[2].i < Len(calls[2].entries)
    /\ calls[2].edges # <<>>
    /\ calls[2].edges # calls[1].edges

\* ------------------------------------------------------------------------
\* Properties of the DSU
\* ------------------------------------------------------------------------
\* where x gets after k steps along the parent pointers
RECURSIVE climb(_, _, _)
climb(par, x, k) ==
    IF par[x] = x \/ k = 0 THEN x ELSE climb(par, par[x], k - 1)

\* the root of x when the pointers form a forest
rootIn(par, x) == climb(par, x, Cardinality(DOMAIN par))

IsForest(par) == \A x \in DOMAIN par : par[rootIn(par, x)] = rootIn(par, x)

\* the elements x shares its root with
componentIn(par, x) == {y \in DOMAIN par : rootIn(par, y) = rootIn(par, x)}

SizesCount(par, sz) ==
    \A r \in DOMAIN par :
        par[r] = r => sz[r] = Cardinality(componentIn(par, r))

\* what union(x, y) must have done between two states
UnionMerges(x, y) ==
    LET ra == rootIn(parent, x)
        rb == rootIn(parent, y)
        top == IF size[ra] < size[rb] THEN rb ELSE ra
    IN \A z \in DOMAIN parent :
          rootIn(parent', z)
              = IF rootIn(parent, z) \in {ra, rb} THEN top
                ELSE rootIn(parent, z)

\* C25: the parent pointers of a DSU always form a forest, the size of every
\* root is the number of elements under it, union(a, b) merges the
\* components of a and b and no other, hanging the smaller root under the
\* larger one and the root of b under the root of a when the sizes are
\* equal, and find leaves every element with the root it had.
C25_DSUInvariant ==
    /\ [](pc = "dsu" => IsForest(parent) /\ SizesCount(parent, size))
    /\ [][pc = "dsu" =>
             /\ \A x, y \in DOMAIN parent : Union(x, y) => UnionMerges(x, y)
             /\ \A x \in DOMAIN parent :
                   Find(x) =>
                       /\ \A z \in DOMAIN parent :
                             rootIn(parent', z) = rootIn(parent, z)
                       /\ parent'[x] = rootIn(parent, x)]_vars

\* a chain of two pointers under a root of four elements, made by the
\* union of two roots of size 2
C25_Witness ==
    /\ pc = "dsu"
    /\ \E x \in DOMAIN parent :
          /\ parent[x] # x
          /\ parent[parent[x]] # parent[x]
          /\ size[rootIn(parent, x)] = 4

\* ------------------------------------------------------------------------
\* Properties of the total of a headcount
\* ------------------------------------------------------------------------
\* the total of counts c: the given one, else the sum of the parts that are
\* there, else none
TotalOf(c) ==
    IF c.total.k # "absent" THEN safeNum(c.total)
    ELSE IF \A f \in {"male", "female", "kids"} : safeNum(c[f]) = null
    THEN null
    ELSE Some(Coalesce(safeNum(c.male), 0) + Coalesce(safeNum(c.female), 0)
                  + Coalesce(safeNum(c.kids), 0))

\* the tolerant rule on the parts both records have, with that total
TolerantWithTotal(ca, cb) ==
    LET both(x, y) == x # null /\ y # null
        near(x, y, tol) == both(x, y) => Abs(x[1] - y[1]) <= tol
    IN IF /\ \A f \in {"male", "female", "kids"} :
                ~both(safeNum(ca[f]), safeNum(cb[f]))
          /\ ~both(TotalOf(ca), TotalOf(cb))
       THEN 0
       ELSE IF /\ \A f \in {"male", "female", "kids"} :
                     near(safeNum(ca[f]), safeNum(cb[f]), 1)
               /\ near(TotalOf(ca), TotalOf(cb), 3)
       THEN SCALE ELSE 0

\* the cosine of the four numbers, with that total
CosineWithTotal(ca, cb) ==
    LET vec(c) == <<Coalesce(safeNum(c.male), 0),
                    Coalesce(safeNum(c.female), 0),
                    Coalesce(safeNum(c.kids), 0), Coalesce(TotalOf(c), 0)>>
    IN IF ca.k = "absent" /\ cb.k = "absent" THEN 0
       ELSE cosine(vec(ca), vec(cb))

\* C26: the headcount similarity of two records uses, for each record, the
\* total it gives, else the sum of the parts it has (a missing part is 0),
\* and no total when it has no part at all.
C26_TotalGivenOrDerived ==
    (pc = "scored") =>
        scores.counts = IF variant = "strict"
                        THEN TolerantWithTotal(a.counts, b.counts)
                        ELSE CosineWithTotal(a.counts, b.counts)

\* ------------------------------------------------------------------------
\* Properties of countsAvg
\* ------------------------------------------------------------------------
\* the rows of a bucket that have some headcount number, in input order
RowsWithHeadcount(bk) ==
    SelectSeq(rows.v, LAMBDA r :
        /\ r.id \in BucketIds(bk)
        /\ \E f \in {"male", "female", "kids", "total"} : r[f].k = "num")

\* the mean of a headcount field over these rows, in tenths
MeanOverHeadcounts(bk, f) ==
    LET rs == RowsWithHeadcount(bk)
        part(r, g) == IF r[g].k = "num" THEN r[g].v ELSE 0
        val(r) == IF f # "total" \/ r.total.k = "num" THEN part(r, f)
                  ELSE part(r, "male") + part(r, "female") + part(r, "kids")
    IN IF rs = <<>> THEN 0
       ELSE toFixed1(SumSeq([p \in 1..Len(rs) |-> val(rs[p])]), Len(rs))

\* C27: countsAvg of a bucket is, for male, female, kids and total, the mean
\* over the members that have headcount data, to one decimal, and 0 when no
\* member has any; a member without headcount data does not count in the
\* denominator, also for rows that come through groupSimilarEntries.
C27_CountsAvgOverHeadcounts ==
    (pc \in {"grouped", "responded"} /\ rows.k = "arr") =>
        \A g \in 1..Len(returned.buckets) :
            \A f \in {"male", "female", "kids", "total"} :
                returned.buckets[g].countsAvg[f]
                    = Num(MeanOverHeadcounts(returned.buckets[g], f))

\* ------------------------------------------------------------------------
\* Properties of the reported scores
\* ------------------------------------------------------------------------
\* C28: every edge of the returned pairwise list carries a score that is at
\* least the threshold used and lies between 0 and 1, although the score is
\* reported rounded to three decimals.
C28_EdgeScoreAtLeastThreshold ==
    Returned =>
        \A e \in 1..Len(returned.pairwise) :
            /\ returned.pairwise[e].score >= UsedThreshold
            /\ returned.pairwise[e].score >= 0
            /\ returned.pairwise[e].score <= SCALE

\* ------------------------------------------------------------------------
\* Properties of the consent index
\* ------------------------------------------------------------------------
\* the index has a line for the URL u
Indexed(u) ==
    \E p \in DOMAIN index.lines :
        /\ index.lines[p].k = "json"
        /\ normalizeUrl(index.lines[p].url) = normalizeUrl(u)

\* C29: a record appended to the index by POST /journal stays in it as long
\* as its resource is on the pod (no POST /journal/delete took it away, no
\* prune could find it dead), whatever a delete of another entry or a prune
\* does around the append.
C29_AppendedLineStays ==
    (/\ pc = "index"
     /\ handlers.post.pc = "done"
     /\ handlers.post.url.res \in pod) => Indexed(handlers.post.url)

\* C30: once POST /journal/delete has answered for a URL, the index has no
\* line for that URL, whatever a prune that read the file earlier writes
\* afterwards; and what the delete writes is the file without the lines of
\* that URL, the other lines, malformed ones too, in their order.
C30_DeletedLineStaysOut ==
    /\ [](pc = "index" /\ handlers.delete.pc = "answered"
            => ~Indexed(handlers.delete.url))
    /\ [][DeleteWriteIndex =>
             index'.lines
                 = removeFromConsentIndexByUrlSync(index.lines,
                                                   handlers.delete.url)]_vars

=============================================================================
